---- MODULE Spec2Model ----
(***************************************************************************)
(* News aggregation worker (workers/src/index.ts, newer revision in        *)
(* src/unnamed/part_008): the merge engine mergeNewsItems, the item        *)
(* builders of the two adapter kinds, and the load-merge-save sequence of  *)
(* storeNewsData run by the manual trigger (POST /news-scraper) and the    *)
(* cron trigger (scheduled) against the Cloudflare KV namespace NEWS_KV.   *)
(*                                                                         *)
(* Specifications:                                                         *)
(*   SpecMerge  mergeNewsItems as a pure function, applied to bounded      *)
(*              input lists;                                               *)
(*   Spec       the worker: up to two overlapping acquisition runs, each   *)
(*              advancing from one await to the next, over one KV store;   *)
(*   SpecStore  the runs one at a time, over a store whose writes may      *)
(*              throw;                                                     *)
(*   SpecFetch  one run with fetchAllNews as the loop over the seven        *)
(*              configured sources;                                        *)
(*   SpecLoader the retrieval endpoint GET /news-loader beside the runs;    *)
(*   SpecClient one page load of the browser client (loadStoredNews,        *)
(*              fetchLatestNews, fetchAllData of the dashboard);            *)
(*   SpecRefresh one manual refresh of the dashboard (refreshNews,         *)
(*              scrapeLatestNews, triggerNewsScraping);                    *)
(*   SpecSchedule one run with the requests and delays of fetchAllNews;    *)
(*   SpecTtl    cron cycles over the days, records expiring in the store;  *)
(*   SpecParse  the three markup parsers applied to bounded documents;     *)
(*   SpecTags   extractTags applied to bounded texts;                      *)
(*   SpecIds    generateId applied to pairs of URLs;                       *)
(*   SpecLive   one live request of the client under fetchWithTimeout;     *)
(*   SpecFixture concurrent callers of loadFixtureData; SpecFixtureClear   *)
(*              the same with clearFixtureCache;                           *)
(*   SpecNews   the endpoint GET /news of workers/src/index.ts.            *)
(***************************************************************************)
EXTENDS Integers, Sequences, FiniteSets, TLC

(***************************************************************************)
(* Bounds of the model.                                                    *)
(***************************************************************************)
\* mergeNewsItems keeps the first 100 items (part_008:302); the model keeps
\* the same slice with a small cap so that truncation happens within the
\* bounded lists.
MAX_NEWS_ITEMS == 2
\* publishedAt values are the instants 1..MaxTime (every publishedAt the
\* worker stores is the output of Date.toISOString(), hence a valid instant).
MaxTime == 2
\* SpecMerge: Len(existingNews) + Len(newNews) of one application.
MaxTotal == 3
\* SpecParse: number of entries in one feed or page.
MaxEntries == 2
\* Spec: number of triggers (cron or manual) in one behaviour.
MaxRuns == 2
\* Seconds a request of the client is followed for: past WORKER_TIMEOUT.
MaxElapsed == 32
\* Requests for the snapshot file, and concurrent callers of loadFixtureData.
MaxFixtureRequests == 3
MaxCallers == 3
\* Days the store's clock runs for: one day past the longest expiration.
MaxDays == 31

Times == 1..MaxTime

Min(a, b) == IF a <= b THEN a ELSE b

(***************************************************************************)
(* URLs.  A URL is kept as its parts; the three article URLs are           *)
(*   U1 = https://www.azores.gov.pt/pt/n1                                  *)
(*   U2 = https://www.uac.pt/noticias/2                                    *)
(*   U3 = https://dre.pt/web/3                                             *)
(***************************************************************************)
U1 == [scheme |-> "https://", host |-> "www.azores.gov.pt", path |-> "/pt/n1"]
U2 == [scheme |-> "https://", host |-> "www.uac.pt", path |-> "/noticias/2"]
U3 == [scheme |-> "https://", host |-> "dre.pt", path |-> "/web/3"]
URLs == {U1, U2, U3}

\* The article URLs the seven configured sources deliver in SpecFetch, and
\* the URLs of the hard-coded items of scrapeAzoresGovernment and
\* scrapeDiarioRepublica.
SGov == [scheme |-> "https://", host |-> "portal.azores.gov.pt", path |-> "/news-detail/1"]
SGovFallback == [scheme |-> "https://", host |-> "portal.azores.gov.pt", path |-> "/test-news-fallback"]
SDreTest == [scheme |-> "https://", host |-> "dre.pt", path |-> "/web/guest/home/test-news"]
SDreFallback == [scheme |-> "https://", host |-> "dre.pt", path |-> "/web/guest/home/test-news-fallback"]
SInova == [scheme |-> "https://", host |-> "inova.azores.gov.pt", path |-> "/noticias/1"]
SGeopark == [scheme |-> "https://", host |-> "www.azoresgeopark.com", path |-> "/noticia.php?id=1"]
SUac == [scheme |-> "https://", host |-> "noticias.uac.pt", path |-> "/2025/1"]
SFao == [scheme |-> "https://", host |-> "www.fao.org", path |-> "/agroecology/news/1"]
SEu == [scheme |-> "https://", host |-> "environment.ec.europa.eu", path |-> "/news/1"]
SourceUrls == {SGov, SGovFallback, SDreTest, SDreFallback, SInova, SGeopark, SUac, SFao, SEu}

\* First character of each host name of the model.
FirstChar(host) ==
  CASE host = "www.azores.gov.pt" -> "w"
    [] host = "www.uac.pt" -> "w"
    [] host = "dre.pt" -> "d"
    [] host = "portal.azores.gov.pt" -> "p"
    [] host = "inova.azores.gov.pt" -> "i"
    [] host = "www.azoresgeopark.com" -> "w"
    [] host = "noticias.uac.pt" -> "n"
    [] host = "www.fao.org" -> "w"
    [] host = "environment.ec.europa.eu" -> "e"

\* btoa of a string whose first nine characters are the scheme "https://"
\* followed by the character c: every 3 bytes give 4 base64 characters, so
\* the first 12 base64 characters encode exactly the first 9 bytes.  None of
\* the 12 characters is '+', '/' or '=', so the replace() removes nothing
\* before position 12.
BtoaHead12(scheme, c) ==
  CASE scheme = "https://" /\ c = "w" -> "aHR0cHM6Ly93"
    [] scheme = "https://" /\ c = "d" -> "aHR0cHM6Ly9k"
    [] scheme = "https://" /\ c = "p" -> "aHR0cHM6Ly9w"
    [] scheme = "https://" /\ c = "i" -> "aHR0cHM6Ly9p"
    [] scheme = "https://" /\ c = "n" -> "aHR0cHM6Ly9u"
    [] scheme = "https://" /\ c = "e" -> "aHR0cHM6Ly9l"

\* A relative link as found in an href or <link>: no scheme, no host.
RelLink == [scheme |-> "", host |-> "", path |-> "/noticias/2"]

\* btoa of a relative link: the first nine characters are those of the
\* path, "/noticias" for RelLink.
BtoaHead12OfPath(path) ==
  CASE path = "/noticias/2" -> "L25vdGljaWFz"

\* generateId(url) = btoa(url).replace(/[^a-zA-Z0-9]/g, '').substring(0, 12)
generateId(url) ==
  IF url.scheme = "" THEN BtoaHead12OfPath(url.path)
  ELSE BtoaHead12(url.scheme, FirstChar(url.host))

\* extractSourceFromUrl(url) = new URL(url).hostname.replace('www.', ''),
\* 'unknown' when new URL(url) throws (a relative link).
extractSourceFromUrl(url) ==
  CASE url.scheme = "" -> "unknown"
    [] url.host = "www.azores.gov.pt" -> "azores.gov.pt"
    [] url.host = "www.uac.pt" -> "uac.pt"
    [] url.host = "dre.pt" -> "dre.pt"
    [] url.host = "portal.azores.gov.pt" -> "portal.azores.gov.pt"
    [] url.host = "inova.azores.gov.pt" -> "inova.azores.gov.pt"
    [] url.host = "www.azoresgeopark.com" -> "azoresgeopark.com"
    [] url.host = "noticias.uac.pt" -> "noticias.uac.pt"
    [] url.host = "www.fao.org" -> "fao.org"
    [] url.host = "environment.ec.europa.eu" -> "environment.ec.europa.eu"

Titles == {"old", "new"}

(***************************************************************************)
(* Item builders.  title stands for the content fields of a NewsItem       *)
(* (title, summary and the tags derived from them).                        *)
(***************************************************************************)
\* What a scraper or a feed entry carries before it becomes a NewsItem.
RawEntries == [url : URLs, title : Titles, publishedAt : Times]

\* A mutant of NewsItemOfScraped: the id is taken from the title.
NewsItemOfScrapedIdFromTitle(item) ==
  [id |-> item.title, title |-> item.title, source |-> extractSourceFromUrl(item.url),
   url |-> item.url, publishedAt |-> item.publishedAt]

\* The object literal of convertScrapedToNews.
NewsItemOfScraped(item) ==
  [id |-> generateId(item.url), title |-> item.title,
   source |-> extractSourceFromUrl(item.url),
   url |-> item.url, publishedAt |-> item.publishedAt]

convertScrapedToNews(scrapedItems) ==
  [i \in 1..Len(scrapedItems) |-> NewsItemOfScraped(scrapedItems[i])]

\* The items.push({...}) of parseRSSFeed for one <item> with title and link.
NewsItemOfRssEntry(entry) ==
  [id |-> generateId(entry.url), title |-> entry.title,
   source |-> extractSourceFromUrl(entry.url),
   url |-> entry.url, publishedAt |-> entry.publishedAt]

parseRSSFeed(entries) ==
  [i \in 1..Len(entries) |-> NewsItemOfRssEntry(entries[i])]

\* Every NewsItem an adapter can build.
NewsItems == {NewsItemOfScraped(e) : e \in RawEntries}

(***************************************************************************)
(* Merge engine.                                                           *)
(***************************************************************************)
\* A mutant of sortCompare: the operands are swapped (ascending order).
sortCompareAscending(a, b) == a.publishedAt - b.publishedAt

\* Array.prototype.sort with the comparator
\*   (a, b) => time(b.publishedAt) - time(a.publishedAt)
\* The sort is stable (ECMAScript 2019): an item is placed after every item
\* that is at least as recent and came before it.
sortCompare(a, b) == b.publishedAt - a.publishedAt

RECURSIVE InsertSorted(_, _)
InsertSorted(sorted, x) ==
  IF sorted = <<>> THEN <<x>>
  ELSE IF sortCompare(Head(sorted), x) <= 0
       THEN <<Head(sorted)>> \o InsertSorted(Tail(sorted), x)
       ELSE <<x>> \o sorted

RECURSIVE SortFrom(_, _)
SortFrom(sorted, rest) ==
  IF rest = <<>> THEN sorted
  ELSE SortFrom(InsertSorted(sorted, Head(rest)), Tail(rest))

sortByPublishedAt(items) == SortFrom(<<>>, items)

\* A mutant of slice: the last n items are kept instead of the first n.
sliceTail(items, n) == SubSeq(items, Len(items) - Min(Len(items), n) + 1, Len(items))

slice(items, n) == SubSeq(items, 1, Min(Len(items), n))

\* A mutant of mergeNewsItems: the merged list is returned without the slice.
mergeNewsItemsUncapped(existingNews, newNews) ==
  LET existingUrls == {existingNews[i].url : i \in 1..Len(existingNews)}
      uniqueNewItems == SelectSeq(newNews, LAMBDA item : item.url \notin existingUrls)
  IN  sortByPublishedAt(existingNews \o uniqueNewItems)

\* A mutant of mergeNewsItems: the new items are put before the existing
\* ones in the list that is sorted.
mergeNewsItemsNewFirst(existingNews, newNews) ==
  LET existingUrls == {existingNews[i].url : i \in 1..Len(existingNews)}
      uniqueNewItems == SelectSeq(newNews, LAMBDA item : item.url \notin existingUrls)
  IN  slice(sortByPublishedAt(uniqueNewItems \o existingNews), MAX_NEWS_ITEMS)

\* A mutant of mergeNewsItems: last-seen wins, an incoming item replaces the
\* existing items of its URL.
mergeNewsItemsOverwrite(existingNews, newNews) ==
  LET newUrls == {newNews[i].url : i \in 1..Len(newNews)}
      keptExisting == SelectSeq(existingNews, LAMBDA item : item.url \notin newUrls)
  IN  slice(sortByPublishedAt(keptExisting \o newNews), MAX_NEWS_ITEMS)

mergeNewsItems(existingNews, newNews) ==
  LET existingUrls == {existingNews[i].url : i \in 1..Len(existingNews)}
      uniqueNewItems == SelectSeq(newNews, LAMBDA item : item.url \notin existingUrls)
      mergedNews == sortByPublishedAt(existingNews \o uniqueNewItems)
  IN  slice(mergedNews, MAX_NEWS_ITEMS)

(***************************************************************************)
(* State.                                                                  *)
(***************************************************************************)
VARIABLES
  \* SpecMerge: one application mergeNewsItems(argExisting, argNew)
  argExisting,   \* the existingNews argument
  argNew,        \* the newNews argument
  resMerged,     \* its result
  resRemerged,   \* the result merged with argNew once more
  mstage,        \* "input" | "merged" ("unused" under Spec)
  \* Spec: the worker
  kv,            \* NEWS_KV: key -> stored entry
  pc,            \* per handler: the await its run is suspended at
  news,          \* per handler: the batch returned by fetchAllNews
  existingNews,  \* per handler: what getExistingNewsFromKV returned
  mergedNews,    \* per handler: mergeNewsItems(existingNews, news)
  itemIdx,       \* per handler: next item of the per-item write loop
  unreadNews,    \* per handler: the stored list a failed KV read did not deliver (history)
  response,      \* per handler: the answer given to the trigger's caller
  runsStarted,   \* number of triggers so far
  now,           \* the clock read by new Date()
  kvBound,       \* whether the environment has the NEWS_KV binding
  ops,           \* per handler: the NEWS_KV calls its run has completed (history)
  clock,         \* days elapsed, as the store's expiry sees them
  \* SpecFetch: the loop of fetchAllNews over the configured sources
  srcIdx,        \* position in the source list of the next source to fetch
  outcome,       \* per source: what its request met (history)
  contributed,   \* per source: number of items it added to the batch (history)
  fpc,           \* SpecSchedule: the await the loop of fetchAllNews is suspended at
  inFlight,      \* SpecSchedule: the sources whose request is outstanding
  delayed,       \* SpecSchedule: ms of addFetchDelay since the last request settled
  \* SpecLoader: one request GET /news-loader at a time
  lpc,           \* the await the request handler is suspended at
  lnews,         \* its local variable news
  lresponse,     \* its response
  \* SpecClient: one page load of the dashboard
  offline,       \* window.OFFLINE_WORKER === true
  fixtureAvailable, \* whether fetch('/news_fixture.json') delivers the snapshot
  centry,        \* the function the page calls: fetchAllData or fetchLatestNews
  cpc,           \* the await the call is suspended at
  liveOutcome,   \* what the request to the worker URL met (history)
  workerRequests, \* number of requests issued to the worker URL (history)
  fixtureCache,  \* module variable fixtureCache of loadFixtureData
  result,        \* what loadStoredNews / fetchLatestNews resolved or rejected with
  newsItems,     \* dashboard state newsItems
  loading,       \* dashboard state loading
  lastFetchTime, \* dashboard state lastFetchTime
  \* SpecRefresh: one manual refresh of the dashboard
  rpc,           \* the await refreshNews is suspended at
  refreshing,    \* dashboard state refreshing
  timeoutCounter, \* dashboard state timeoutCounter (seconds shown to the user)
  alertShown,    \* whether alert('Failed to refresh news: ...') was raised
  reqElapsed,    \* seconds since the request in flight was issued
  scrapeResult,  \* what triggerNewsScraping returned to scrapeLatestNews
  \* SpecParse, SpecTags, SpecIds: one call of a pure function
  callFn,        \* the function called
  callArg,       \* its argument
  callRet,       \* its return value
  callStage,     \* "input" before the call, "returned" after it
  \* SpecFixture: the module state of loadFixtureData and its callers
  fixturePromise, \* the request the module variable fixturePromise is for, 0 for null
  fxData,        \* the request whose data fixtureCache holds, 0 for null
  fxReq,         \* per request for /news_fixture.json: unissued, inFlight, ok, failed
  fxCall,        \* per caller: where its loadFixtureData call is, and what it got
  fxCleared      \* clearFixtureCache has returned and no loadFixtureData was called since

mergeVars == <<argExisting, argNew, resMerged, resRemerged, mstage>>
workerVars == <<kv, pc, news, existingNews, mergedNews, itemIdx, unreadNews,
                response, runsStarted, now, kvBound, ops, clock>>
fetchVars == <<srcIdx, outcome, contributed, fpc, inFlight, delayed>>
loaderVars == <<lpc, lnews, lresponse>>
clientVars == <<offline, fixtureAvailable, centry, cpc, liveOutcome, workerRequests,
                fixtureCache, result, newsItems, loading, lastFetchTime>>
refreshVars == <<rpc, refreshing, timeoutCounter, alertShown, reqElapsed, scrapeResult>>
callVars == <<callFn, callArg, callRet, callStage>>
\* What the worker's steps leave alone, and what the merge steps leave alone.
fixtureVars == <<fixturePromise, fxData, fxReq, fxCall, fxCleared>>
restVars == <<clock, mergeVars, fetchVars, loaderVars, clientVars, refreshVars, callVars, fixtureVars>>
nonMergeVars == <<workerVars, fetchVars, loaderVars, clientVars, refreshVars, callVars, fixtureVars>>
vars == <<argExisting, argNew, resMerged, resRemerged, mstage,
          kv, pc, news, existingNews, mergedNews, itemIdx, unreadNews,
          response, runsStarted, now, kvBound, ops, clock,
          srcIdx, outcome, contributed, fpc, inFlight, delayed,
          lpc, lnews, lresponse,
          offline, fixtureAvailable, centry, cpc, liveOutcome, workerRequests,
          fixtureCache, result, newsItems, loading, lastFetchTime,
          rpc, refreshing, timeoutCounter, alertShown, reqElapsed, scrapeResult,
          callFn, callArg, callRet, callStage,
          fixturePromise, fxData, fxReq, fxCall, fxCleared>>

(***************************************************************************)
(* The KV namespace NEWS_KV.                                               *)
(***************************************************************************)
Ids == {generateId(u) : u \in URLs \cup SourceUrls}
NewsKey(id) == "news-" \o id
Keys == {"latest-news", "fetch-metadata"} \cup {NewsKey(id) : id \in Ids}

NoValue == [present |-> FALSE]
\* A record put with {expirationTtl: ttl}; the store keeps the day of the put.
Stored(v, ttl) == [present |-> TRUE, value |-> v, expirationTtl |-> ttl, writtenAt |-> clock]

\* expirationTtl of the collection record and of the other records, seconds
\* expirationTtl is counted in seconds.
SecondsPerDay == 86400
CollectionTtl == 86400 * 7
RecordTtl == 86400 * 30

\* The two handlers that run the acquisition pipeline: fetch for
\* POST /news-scraper and scheduled for the cron trigger.  Each has at most
\* one run in progress; the two may overlap.
Slots == {"manual", "scheduled"}
NoResponse == [sent |-> FALSE]

\* The list stored under 'latest-news': [] when the key is absent.
Latest == IF kv["latest-news"].present THEN kv["latest-news"].value ELSE <<>>

WorkerInit ==
  /\ kv = [k \in Keys |-> NoValue]
  /\ pc = [r \in Slots |-> "idle"]
  /\ news = [r \in Slots |-> <<>>]
  /\ existingNews = [r \in Slots |-> <<>>]
  /\ mergedNews = [r \in Slots |-> <<>>]
  /\ itemIdx = [r \in Slots |-> 0]
  /\ unreadNews = [r \in Slots |-> <<>>]
  /\ response = [r \in Slots |-> NoResponse]
  /\ runsStarted = 0
  /\ now = 0
  /\ ops = [r \in Slots |-> <<>>]
  /\ clock = 0

\* getNewsSources(), the categories flattened in the order fetchAllNews
\* visits them.
Sources ==
  << [label |-> "Governo dos Acores", type |-> "scrape", category |-> 1],
     [label |-> "Diario da Republica", type |-> "scrape", category |-> 1],
     [label |-> "INOVA (Inovacao Acores)", type |-> "scrape", category |-> 1],
     [label |-> "Azores Geopark", type |-> "scrape", category |-> 2],
     [label |-> "Universidade dos Acores", type |-> "scrape", category |-> 2],
     [label |-> "FAO Agroecology", type |-> "rss", category |-> 3],
     [label |-> "EU Environment", type |-> "rss", category |-> 3] >>
NumSources == Len(Sources)

FetchIdle ==
  /\ srcIdx = 1
  /\ outcome = [i \in 1..NumSources |-> "pending"]
  /\ contributed = [i \in 1..NumSources |-> 0]
  /\ fpc = "issue"
  /\ inFlight = {}
  /\ delayed = 0

\* lastCronRun: null of the /news-loader response (no metadata read).
NoCronRun == 0

LoaderIdle ==
  /\ lpc = "idle"
  /\ lnews = <<>>
  /\ lresponse = NoResponse

\* No promise settled yet.
Pending == [kind |-> "pending"]

\* The dashboard's state before its effect runs: useState([]) for newsItems,
\* useState(true) for loading, no lastFetchTime; fixtureCache = null.
ClientFresh ==
  /\ cpc = "idle"
  /\ liveOutcome = "none"
  /\ workerRequests = 0
  /\ fixtureCache = FALSE
  /\ result = Pending
  /\ newsItems = <<>>
  /\ loading = TRUE
  /\ lastFetchTime = NoCronRun

\* No pure function under examination.
CallIdle ==
  /\ callFn = "none"
  /\ callArg = <<>>
  /\ callRet = <<>>
  /\ callStage = "unused"

\* A caller that is not inside loadFixtureData.
NotCalling == [pc |-> "idle", on |-> 0, got |-> 0]

\* let fixtureCache = null; let fixturePromise = null; no request made.
FixtureIdle ==
  /\ fixturePromise = 0
  /\ fxData = 0
  /\ fxReq = [id \in 1..MaxFixtureRequests |-> "unissued"]
  /\ fxCall = [c \in 1..MaxCallers |-> NotCalling]
  /\ fxCleared = FALSE

\* No refresh requested: useState(false) for refreshing, useState(0) for
\* timeoutCounter.
RefreshIdle ==
  /\ FixtureIdle
  /\ rpc = "idle"
  /\ refreshing = FALSE
  /\ timeoutCounter = 0
  /\ alertShown = FALSE
  /\ reqElapsed = 0
  /\ scrapeResult = [settled |-> FALSE]

\* No page open.
PageIdle ==
  /\ RefreshIdle
  /\ ClientFresh
  /\ offline = FALSE
  /\ fixtureAvailable = TRUE
  /\ centry = "fetchAllData"

\* The steps of the worker's specifications happen with no page open and
\* no function under examination.
ClientIdle == PageIdle /\ CallIdle

MergeIdle ==
  /\ argExisting = <<>>
  /\ argNew = <<>>
  /\ resMerged = <<>>
  /\ resRemerged = <<>>
  /\ mstage = "unused"

(***************************************************************************)
(* Upstream: what the sources serve.  Each of the two adapter kinds        *)
(* (scrape, rss) delivers nothing or one entry of its catalogue; U1 is     *)
(* reported by both kinds, under different titles and dates.               *)
(***************************************************************************)
ScrapeCatalogue ==
  {[url |-> U1, title |-> "old", publishedAt |-> 1],
   [url |-> U2, title |-> "old", publishedAt |-> MaxTime]}
RssCatalogue ==
  {[url |-> U1, title |-> "new", publishedAt |-> MaxTime],
   [url |-> U3, title |-> "old", publishedAt |-> MaxTime]}
FetchResults(catalogue) == {<<>>} \cup {<<e>> : e \in catalogue}

(***************************************************************************)
(* The worker's steps.  A run is suspended only at an await; each action   *)
(* is the code from one await to the next.                                 *)
(***************************************************************************)
\* The trigger's answer once storeNewsData has returned: the manual trigger
\* answers {success: true, count}, the cron handler only logs.
Answer(r, batch) ==
  IF r = "manual"
  THEN [sent |-> TRUE, success |-> TRUE, count |-> Len(batch)]
  ELSE NoResponse

\* The error payload of the manual trigger's catch block (status 500).
ErrorPayload == [sent |-> TRUE, success |-> FALSE, count |-> 0]

\* One completed NEWS_KV call of a run: the method, the key and whether
\* the call resolved (ok) or threw.
KvOp(method, key, ok) == [op |-> method, key |-> key, ok |-> ok]

\* A mutant of OnKvError: the error is passed on to the trigger, which
\* answers with the error payload.
OnKvErrorRethrow(r) ==
  /\ pc' = [pc EXCEPT ![r] = "done"]
  /\ response' = [response EXCEPT ![r] = ErrorPayload]

\* catch (kvError) of storeNewsData: the error is logged, storeNewsData
\* returns normally and the trigger answers as after a complete run.
OnKvError(r) ==
  /\ pc' = [pc EXCEPT ![r] = "done"]
  /\ response' = [response EXCEPT ![r] = Answer(r, news[r])]

\* fetch (POST /news-scraper) or scheduled is invoked: a run starts.
Trigger(r) ==
  /\ pc[r] \in {"idle", "done"}
  /\ runsStarted < MaxRuns
  /\ runsStarted' = runsStarted + 1
  /\ now' = now + 1
  /\ pc' = [pc EXCEPT ![r] = "fetchAllNews"]
  /\ news' = [news EXCEPT ![r] = <<>>]
  /\ existingNews' = [existingNews EXCEPT ![r] = <<>>]
  /\ mergedNews' = [mergedNews EXCEPT ![r] = <<>>]
  /\ itemIdx' = [itemIdx EXCEPT ![r] = 0]
  /\ unreadNews' = [unreadNews EXCEPT ![r] = <<>>]
  /\ ops' = [ops EXCEPT ![r] = <<>>]
  /\ response' = [response EXCEPT ![r] = NoResponse]
  /\ UNCHANGED <<kv, kvBound, restVars>>

\* Variant of StoreNewsDataStart without the early return for an empty
\* batch: the run goes on to the KV read.
StoreNewsDataStartNoEarlyReturn(r, allNews) ==
  /\ news' = [news EXCEPT ![r] = allNews]
  /\ IF ~kvBound
     THEN /\ pc' = [pc EXCEPT ![r] = "done"]
          /\ response' = [response EXCEPT ![r] = Answer(r, allNews)]
     ELSE /\ pc' = [pc EXCEPT ![r] = "getExisting"]
          /\ UNCHANGED response

\* storeNewsData(news, env) up to its first await: an empty batch returns at
\* once, a missing NEWS_KV binding is logged and returns, otherwise the KV
\* read is issued.
StoreNewsDataStart(r, allNews) ==
  /\ news' = [news EXCEPT ![r] = allNews]
  /\ IF Len(allNews) = 0 \/ ~kvBound
     THEN /\ pc' = [pc EXCEPT ![r] = "done"]
          /\ response' = [response EXCEPT ![r] = Answer(r, allNews)]
     ELSE /\ pc' = [pc EXCEPT ![r] = "getExisting"]
          /\ UNCHANGED response

\* fetchAllNews returns and storeNewsData starts.
FetchAllNews(r) ==
  /\ pc[r] = "fetchAllNews"
  /\ \E scraped \in FetchResults(ScrapeCatalogue), feed \in FetchResults(RssCatalogue) :
       StoreNewsDataStart(r, convertScrapedToNews(scraped) \o parseRSSFeed(feed))
  /\ UNCHANGED <<kv, kvBound, existingNews, mergedNews, itemIdx, unreadNews, ops,
                 runsStarted, now, restVars>>

\* getExistingNewsFromKV: the stored list, or [] when the key is absent or
\* when get / JSON.parse throws.
getExistingNewsFromKV(store, ok) ==
  IF ok /\ store["latest-news"].present THEN store["latest-news"].value ELSE <<>>

\* A mutant of GetExisting: the collection write is skipped, the run goes
\* on with the per-item writes.
GetExistingSkipCollection(r) ==
  /\ pc[r] = "getExisting"
  /\ \E ok \in BOOLEAN :
       LET existing == getExistingNewsFromKV(kv, ok)
       IN  /\ existingNews' = [existingNews EXCEPT ![r] = existing]
           /\ mergedNews' = [mergedNews EXCEPT ![r] = mergeNewsItems(existing, news[r])]
           /\ unreadNews' = [unreadNews EXCEPT ![r] = IF ok THEN <<>> ELSE getExistingNewsFromKV(kv, TRUE)]
           /\ ops' = [ops EXCEPT ![r] = Append(ops[r], KvOp("get", "latest-news", ok))]
  /\ pc' = [pc EXCEPT ![r] = "putItems"]
  /\ itemIdx' = [itemIdx EXCEPT ![r] = 1]
  /\ UNCHANGED <<kv, kvBound, news, response, runsStarted, now, restVars>>

\* The KV read completes; mergeNewsItems runs; the collection write is issued.
GetExisting(r) ==
  /\ pc[r] = "getExisting"
  /\ \E ok \in BOOLEAN :
       LET existing == getExistingNewsFromKV(kv, ok)
       IN  /\ existingNews' = [existingNews EXCEPT ![r] = existing]
           /\ mergedNews' = [mergedNews EXCEPT ![r] = mergeNewsItems(existing, news[r])]
           /\ unreadNews' = [unreadNews EXCEPT ![r] = IF ok THEN <<>> ELSE getExistingNewsFromKV(kv, TRUE)]
           /\ ops' = [ops EXCEPT ![r] = Append(ops[r], KvOp("get", "latest-news", ok))]
  /\ pc' = [pc EXCEPT ![r] = "putLatest"]
  /\ UNCHANGED <<kv, kvBound, news, itemIdx, response, runsStarted, now, restVars>>

\* A mutant of PutLatest: the collection is written item by item, the first
\* put holds only the first item of the merged list.
PutLatestPiecewise(r) ==
  /\ pc[r] = "putLatest"
  /\ ops' = [ops EXCEPT ![r] = Append(ops[r], KvOp("put", "latest-news", TRUE))]
  /\ kv' = [kv EXCEPT !["latest-news"] = Stored(SubSeq(mergedNews[r], 1, 1), CollectionTtl)]
  /\ itemIdx' = [itemIdx EXCEPT ![r] = 1]
  /\ pc' = [pc EXCEPT ![r] = "putItems"]
  /\ UNCHANGED <<kvBound, news, existingNews, mergedNews, unreadNews, response,
                 runsStarted, now, restVars>>

\* storeMergedNewsInKV, first put: the collection.
PutLatest(r) ==
  /\ pc[r] = "putLatest"
  /\ ops' = [ops EXCEPT ![r] = Append(ops[r], KvOp("put", "latest-news", TRUE))]
  /\ kv' = [kv EXCEPT !["latest-news"] = Stored(mergedNews[r], CollectionTtl)]
  /\ itemIdx' = [itemIdx EXCEPT ![r] = 1]
  /\ pc' = [pc EXCEPT ![r] = "putItems"]
  /\ UNCHANGED <<kvBound, news, existingNews, mergedNews, unreadNews, response,
                 runsStarted, now, restVars>>

\* Variant of PutItem that gives the per-item record one day to live.
PutItemOneDay(r) ==
  /\ pc[r] = "putItems"
  /\ LET item == mergedNews[r][itemIdx[r]]
     IN  /\ ops' = [ops EXCEPT ![r] = Append(ops[r], KvOp("put", NewsKey(item.id), TRUE))]
         /\ kv' = [kv EXCEPT ![NewsKey(item.id)] = Stored(item, SecondsPerDay)]
  /\ itemIdx' = [itemIdx EXCEPT ![r] = itemIdx[r] + 1]
  /\ pc' = [pc EXCEPT ![r] = IF itemIdx[r] = Len(mergedNews[r]) THEN "putMetadata" ELSE "putItems"]
  /\ UNCHANGED <<kvBound, news, existingNews, mergedNews, unreadNews, response, runsStarted, now, restVars>>

\* storeMergedNewsInKV, the loop: one put per item of the merged list.
PutItem(r) ==
  /\ pc[r] = "putItems"
  /\ LET item == mergedNews[r][itemIdx[r]]
     IN  /\ ops' = [ops EXCEPT ![r] = Append(ops[r], KvOp("put", NewsKey(item.id), TRUE))]
         /\ kv' = [kv EXCEPT ![NewsKey(item.id)] = Stored(item, RecordTtl)]
  /\ itemIdx' = [itemIdx EXCEPT ![r] = itemIdx[r] + 1]
  /\ pc' = [pc EXCEPT ![r] = IF itemIdx[r] = Len(mergedNews[r]) THEN "putMetadata" ELSE "putItems"]
  /\ UNCHANGED <<kvBound, news, existingNews, mergedNews, unreadNews, response,
                 runsStarted, now, restVars>>

\* The metadata object of updateFetchMetadata.
FetchMetadata(merged, newItemsCount, time) ==
  [lastFetch |-> time, lastCronRun |-> time, totalItems |-> Len(merged),
   newItemsAdded |-> newItemsCount,
   sources |-> {merged[i].source : i \in 1..Len(merged)}]

\* updateFetchMetadata's put completes; storeNewsData returns; the trigger answers.
UpdateFetchMetadata(r) ==
  /\ pc[r] = "putMetadata"
  /\ ops' = [ops EXCEPT ![r] = Append(ops[r], KvOp("put", "fetch-metadata", TRUE))]
  /\ LET newItemsCount == Len(mergedNews[r]) - Len(existingNews[r])
     IN  kv' = [kv EXCEPT !["fetch-metadata"] =
                  Stored(FetchMetadata(mergedNews[r], newItemsCount, now), RecordTtl)]
  /\ pc' = [pc EXCEPT ![r] = "done"]
  /\ response' = [response EXCEPT ![r] = Answer(r, news[r])]
  /\ UNCHANGED <<kvBound, news, existingNews, mergedNews, itemIdx, unreadNews,
                 runsStarted, now, restVars>>

\* The key of the put a run is waiting for.
PendingPutKey(r) ==
  CASE pc[r] = "putLatest" -> "latest-news"
    [] pc[r] = "putItems" -> NewsKey(mergedNews[r][itemIdx[r]].id)
    [] pc[r] = "putMetadata" -> "fetch-metadata"

\* The put a run is waiting for throws: the store is left as it was and
\* storeNewsData ends in its catch block.
PutThrows(r) ==
  /\ pc[r] \in {"putLatest", "putItems", "putMetadata"}
  /\ ops' = [ops EXCEPT ![r] = Append(ops[r], KvOp("put", PendingPutKey(r), FALSE))]
  /\ OnKvError(r)
  /\ UNCHANGED <<kv, kvBound, news, existingNews, mergedNews, itemIdx, unreadNews,
                 runsStarted, now, restVars>>

Next ==
  \/ \E r \in Slots : Trigger(r)
  \/ \E r \in Slots : FetchAllNews(r)
  \/ \E r \in Slots : GetExisting(r)
  \/ \E r \in Slots : PutLatest(r)
  \/ \E r \in Slots : PutItem(r)
  \/ \E r \in Slots : UpdateFetchMetadata(r)

\* The deployment: wrangler.toml binds NEWS_KV, or the binding is missing.
Init == WorkerInit /\ kvBound \in BOOLEAN /\ MergeIdle /\ FetchIdle /\ LoaderIdle /\ ClientIdle

Spec == Init /\ [][Next]_vars

(***************************************************************************)
(* SpecStore: the runs of the two handlers one at a time, against a store  *)
(* whose writes may throw.                                                 *)
(***************************************************************************)
\* A trigger that arrives while no run is in progress.
TriggerAlone(r) ==
  /\ \A q \in Slots : pc[q] \in {"idle", "done"}
  /\ Trigger(r)

NextStore ==
  \/ \E r \in Slots : TriggerAlone(r)
  \/ \E r \in Slots : FetchAllNews(r)
  \/ \E r \in Slots : GetExisting(r)
  \/ \E r \in Slots : PutLatest(r)
  \/ \E r \in Slots : PutItem(r)
  \/ \E r \in Slots : UpdateFetchMetadata(r)
  \/ \E r \in Slots : PutThrows(r)

SpecStore == Init /\ [][NextStore]_vars

(***************************************************************************)
(* SpecFetch: one run of a handler with fetchAllNews as the loop over the  *)
(* seven configured sources, each request meeting one of four outcomes.    *)
(***************************************************************************)
\* What the request of a source meets:
\*   "ok"      a 2xx response whose body holds one entry,
\*   "empty"   a 2xx response whose body holds no entry,
\*   "non2xx"  a response with an error status, its body an error page
\*             without entries (no adapter looks at response.ok),
\*   "throws"  fetch() or response.text() rejects.
Outcomes == {"ok", "empty", "non2xx", "throws"}

\* The entries the patterns of an adapter find in the response body.
Body(url, o, t) ==
  IF o = "ok" THEN <<[url |-> url, title |-> "new", publishedAt |-> t]>> ELSE <<>>

\* scrapeAzoresGovernment: the carousel entries, or the hard-coded fallback
\* item when the request throws.
scrapeAzoresGovernment(o, t) ==
  IF o = "throws"
  THEN <<[url |-> SGovFallback, title |-> "Test News from Azores Government (Fallback)",
          publishedAt |-> t]>>
  ELSE Body(SGov, o, t)

\* scrapeDiarioRepublica: the hard-coded test item whatever the response,
\* the hard-coded fallback item when the request throws.
scrapeDiarioRepublica(o, t) ==
  IF o = "throws"
  THEN <<[url |-> SDreFallback, title |-> "Test News from Diario da Republica (Fallback)",
          publishedAt |-> t]>>
  ELSE <<[url |-> SDreTest, title |-> "Test News from Diario da Republica",
          publishedAt |-> t]>>

scrapeInovaAzores(o, t) == IF o = "throws" THEN <<>> ELSE Body(SInova, o, t)
scrapeAzoresGeopark(o, t) == IF o = "throws" THEN <<>> ELSE Body(SGeopark, o, t)
scrapeUniversidadeAzores(o, t) == IF o = "throws" THEN <<>> ELSE Body(SUac, o, t)

routeToScraper(source, o, t) ==
  CASE source.label = "Governo dos Acores" -> scrapeAzoresGovernment(o, t)
    [] source.label = "Diario da Republica" -> scrapeDiarioRepublica(o, t)
    [] source.label = "INOVA (Inovacao Acores)" -> scrapeInovaAzores(o, t)
    [] source.label = "Azores Geopark" -> scrapeAzoresGeopark(o, t)
    [] source.label = "Universidade dos Acores" -> scrapeUniversidadeAzores(o, t)
    [] OTHER -> <<>>

scrapeWebsite(source, o, t) == convertScrapedToNews(routeToScraper(source, o, t))

\* The article URL in the feed of an rss source.
FeedUrl(source) == IF source.label = "FAO Agroecology" THEN SFao ELSE SEu

\* fetchNewsFromSource: the adapter of the source's type; parseRSSFeed(url)
\* returns [] when its request throws.
fetchNewsFromSource(source, o, t) ==
  CASE source.type = "rss" ->
         IF o = "throws" THEN <<>> ELSE parseRSSFeed(Body(FeedUrl(source), o, t))
    [] source.type = "scrape" -> scrapeWebsite(source, o, t)
    [] OTHER -> <<>>

\* A mutant of fetchNewsFromSourceWithErrorHandling: the error of a request
\* that throws reaches the trigger, which gives up the run.
FetchSourceAbortOnError(r) ==
  /\ pc[r] = "fetchAllNews"
  /\ srcIdx <= NumSources
  /\ \E o \in Outcomes :
       LET got == fetchNewsFromSource(Sources[srcIdx], o, now)
       IN  /\ outcome' = [outcome EXCEPT ![srcIdx] = o]
           /\ contributed' = [contributed EXCEPT ![srcIdx] = Len(got)]
           /\ IF o = "throws"
              THEN /\ pc' = [pc EXCEPT ![r] = "done"]
                   /\ response' = [response EXCEPT ![r] = ErrorPayload]
                   /\ UNCHANGED <<news, srcIdx>>
              ELSE /\ news' = [news EXCEPT ![r] = news[r] \o got]
                   /\ srcIdx' = srcIdx + 1
                   /\ UNCHANGED <<pc, response>>
  /\ UNCHANGED <<kv, kvBound, existingNews, mergedNews, itemIdx, unreadNews, ops,
                 runsStarted, now, fpc, inFlight, delayed,
                 clock, mergeVars, fixtureVars, loaderVars, clientVars, refreshVars, callVars>>

\* One turn of the loops of fetchAllNews / fetchNewsFromCategory:
\* fetchNewsFromSourceWithErrorHandling(source) resolves and its items are
\* pushed to the batch.
FetchSource(r) ==
  /\ pc[r] = "fetchAllNews"
  /\ srcIdx <= NumSources
  /\ \E o \in Outcomes :
       LET got == fetchNewsFromSource(Sources[srcIdx], o, now)
       IN  /\ outcome' = [outcome EXCEPT ![srcIdx] = o]
           /\ contributed' = [contributed EXCEPT ![srcIdx] = Len(got)]
           /\ news' = [news EXCEPT ![r] = news[r] \o got]
  /\ srcIdx' = srcIdx + 1
  /\ UNCHANGED <<kv, kvBound, pc, existingNews, mergedNews, itemIdx, unreadNews, ops,
                 response, runsStarted, now, fpc, inFlight, delayed,
                 clock, mergeVars, fixtureVars, loaderVars, clientVars, refreshVars, callVars>>

\* The loop is over: fetchAllNews returns the batch and storeNewsData starts.
FetchAllNewsReturns(r) ==
  /\ pc[r] = "fetchAllNews"
  /\ srcIdx = NumSources + 1
  /\ StoreNewsDataStart(r, news[r])
  /\ UNCHANGED <<kv, kvBound, existingNews, mergedNews, itemIdx, unreadNews, ops,
                 runsStarted, now, restVars>>

\* The only trigger of the behaviour.
TriggerFirst(r) ==
  /\ runsStarted = 0
  /\ Trigger(r)

NextFetch ==
  \/ \E r \in Slots : TriggerFirst(r)
  \/ \E r \in Slots : FetchSource(r)
  \/ \E r \in Slots : FetchAllNewsReturns(r)
  \/ \E r \in Slots : GetExisting(r)
  \/ \E r \in Slots : PutLatest(r)
  \/ \E r \in Slots : PutItem(r)
  \/ \E r \in Slots : UpdateFetchMetadata(r)

InitFetch == WorkerInit /\ kvBound = TRUE /\ MergeIdle /\ FetchIdle /\ LoaderIdle /\ ClientIdle

SpecFetch == InitFetch /\ [][NextFetch]_vars

(***************************************************************************)
(* SpecSchedule: the same run with every await of the loops of             *)
(* fetchAllNews and fetchNewsFromCategory as a step of its own: the        *)
(* request is issued, it settles, the delay after the source passes, the   *)
(* delay after the category passes.                                        *)
(***************************************************************************)
\* addFetchDelay(1000) after every source, addFetchDelay(500) after every
\* category.
FETCH_DELAY_MS == 1000
CATEGORY_DELAY_MS == 500

\* The source is the last of its category.
LastOfCategory(i) == i = NumSources \/ Sources[i + 1].category # Sources[i].category

\* fetchNewsFromSourceWithErrorHandling(source) is called: the request of
\* the source at srcIdx goes out.
IssueRequest(r) ==
  /\ pc[r] = "fetchAllNews"
  /\ fpc = "issue"
  /\ srcIdx <= NumSources
  /\ inFlight' = inFlight \cup {srcIdx}
  /\ fpc' = "await"
  /\ UNCHANGED <<srcIdx, outcome, contributed, delayed, workerVars, mergeVars, fixtureVars,
                 loaderVars, clientVars, refreshVars, callVars>>

\* The request settles: the items of the source are pushed to the batch
\* and addFetchDelay(1000) starts.
SourceSettles(r) ==
  /\ pc[r] = "fetchAllNews"
  /\ fpc = "await"
  /\ \E o \in Outcomes :
       LET got == fetchNewsFromSource(Sources[srcIdx], o, now)
       IN  /\ outcome' = [outcome EXCEPT ![srcIdx] = o]
           /\ contributed' = [contributed EXCEPT ![srcIdx] = Len(got)]
           /\ news' = [news EXCEPT ![r] = news[r] \o got]
  /\ inFlight' = inFlight \ {srcIdx}
  /\ delayed' = 0
  /\ fpc' = "sourceDelay"
  /\ UNCHANGED <<srcIdx, kv, kvBound, pc, existingNews, mergedNews, itemIdx, unreadNews,
                 ops, response, runsStarted, now, clock, mergeVars, fixtureVars, loaderVars, clientVars,
                 refreshVars, callVars>>

\* A mutant of SourceDelay: the loop goes on to the next source at once.
SourceDelaySkipped(r) ==
  /\ pc[r] = "fetchAllNews"
  /\ fpc = "sourceDelay"
  /\ IF LastOfCategory(srcIdx)
     THEN fpc' = "categoryDelay" /\ UNCHANGED srcIdx
     ELSE fpc' = "issue" /\ srcIdx' = srcIdx + 1
  /\ UNCHANGED <<delayed, outcome, contributed, inFlight, workerVars, mergeVars, fixtureVars,
                 loaderVars, clientVars, refreshVars, callVars>>

\* addFetchDelay(1000) of fetchNewsFromCategory is over: the next source of
\* the category, or the end of the category and addFetchDelay(500).
SourceDelay(r) ==
  /\ pc[r] = "fetchAllNews"
  /\ fpc = "sourceDelay"
  /\ delayed' = delayed + FETCH_DELAY_MS
  /\ IF LastOfCategory(srcIdx)
     THEN fpc' = "categoryDelay" /\ UNCHANGED srcIdx
     ELSE fpc' = "issue" /\ srcIdx' = srcIdx + 1
  /\ UNCHANGED <<outcome, contributed, inFlight, workerVars, mergeVars, fixtureVars, loaderVars,
                 clientVars, refreshVars, callVars>>

\* addFetchDelay(500) of fetchAllNews is over: the next category.
CategoryDelay(r) ==
  /\ pc[r] = "fetchAllNews"
  /\ fpc = "categoryDelay"
  /\ delayed' = delayed + CATEGORY_DELAY_MS
  /\ srcIdx' = srcIdx + 1
  /\ fpc' = "issue"
  /\ UNCHANGED <<outcome, contributed, inFlight, workerVars, mergeVars, fixtureVars, loaderVars,
                 clientVars, refreshVars, callVars>>

\* The loop over the categories is over: fetchAllNews returns the batch.
FetchAllNewsAfterDelays(r) ==
  /\ fpc = "issue"
  /\ FetchAllNewsReturns(r)

NextSchedule ==
  \/ \E r \in Slots : TriggerFirst(r)
  \/ \E r \in Slots : IssueRequest(r)
  \/ \E r \in Slots : SourceSettles(r)
  \/ \E r \in Slots : SourceDelay(r)
  \/ \E r \in Slots : CategoryDelay(r)
  \/ \E r \in Slots : FetchAllNewsAfterDelays(r)
  \/ \E r \in Slots : GetExisting(r)
  \/ \E r \in Slots : PutLatest(r)
  \/ \E r \in Slots : PutItem(r)
  \/ \E r \in Slots : UpdateFetchMetadata(r)

SpecSchedule == InitFetch /\ [][NextSchedule]_vars

(***************************************************************************)
(* SpecLoader: the retrieval endpoint GET /news-loader beside the runs of  *)
(* the cron handler, over a store whose records expire.                    *)
(***************************************************************************)
\* The response of GET /news-loader: {success: true, count, news,
\* lastCronRun, source: 'kv-storage-only'}.
LoaderResponse(items, lastCronRun) ==
  [sent |-> TRUE, success |-> TRUE, count |-> Len(items), news |-> items,
   lastCronRun |-> lastCronRun]

\* The request arrives: news = [], metadata = null; without the binding the
\* handler answers at once, otherwise it issues the read of 'latest-news'.
LoaderRequest ==
  /\ lpc \in {"idle", "done"}
  /\ lnews' = <<>>
  /\ IF kvBound
     THEN /\ lpc' = "getNews"
          /\ lresponse' = NoResponse
     ELSE /\ lpc' = "done"
          /\ lresponse' = LoaderResponse(<<>>, NoCronRun)
  /\ UNCHANGED <<workerVars, mergeVars, fixtureVars, fetchVars, clientVars, refreshVars, callVars>>

\* A mutant of LoaderGetNews: a read that finds no collection stores an
\* empty one.
LoaderGetNewsWriteThrough ==
  /\ lpc = "getNews"
  /\ \E ok \in BOOLEAN :
       /\ IF ok
          THEN /\ lnews' = Latest
               /\ lpc' = "getMetadata"
               /\ UNCHANGED lresponse
          ELSE /\ lpc' = "done"
               /\ lresponse' = LoaderResponse(<<>>, NoCronRun)
               /\ UNCHANGED lnews
       /\ kv' = IF ok /\ ~kv["latest-news"].present
                THEN [kv EXCEPT !["latest-news"] = Stored(<<>>, CollectionTtl)]
                ELSE kv
  /\ UNCHANGED <<pc, news, existingNews, mergedNews, itemIdx, unreadNews, response,
                 runsStarted, now, kvBound, ops, clock, mergeVars, fixtureVars, fetchVars, clientVars,
                 refreshVars, callVars>>

\* NEWS_KV.get('latest-news') completes: the stored list is parsed into
\* news and the read of 'fetch-metadata' is issued; a get or JSON.parse that
\* throws is caught, and the handler answers with what it has.
LoaderGetNews ==
  /\ lpc = "getNews"
  /\ \E ok \in BOOLEAN :
       /\ IF ok
          THEN /\ lnews' = Latest
               /\ lpc' = "getMetadata"
               /\ UNCHANGED lresponse
          ELSE /\ lpc' = "done"
               /\ lresponse' = LoaderResponse(<<>>, NoCronRun)
               /\ UNCHANGED lnews
  /\ UNCHANGED <<workerVars, mergeVars, fixtureVars, fetchVars, clientVars, refreshVars, callVars>>

\* NEWS_KV.get('fetch-metadata') completes (or throws and is caught, metadata
\* staying null); the handler answers.
LoaderGetMetadata ==
  /\ lpc = "getMetadata"
  /\ \E ok \in BOOLEAN :
       lresponse' = LoaderResponse(lnews,
                      IF ok /\ kv["fetch-metadata"].present
                      THEN kv["fetch-metadata"].value.lastCronRun
                      ELSE NoCronRun)
  /\ lpc' = "done"
  /\ UNCHANGED <<lnews, workerVars, mergeVars, fixtureVars, fetchVars, clientVars, refreshVars, callVars>>

\* A stored record passes its expirationTtl: the key is gone.
Expire(k) ==
  /\ kv[k].present
  /\ kv' = [kv EXCEPT ![k] = NoValue]
  /\ UNCHANGED <<pc, news, existingNews, mergedNews, itemIdx, unreadNews, response,
                 runsStarted, now, kvBound, ops, restVars>>

\* The keys GET /news-loader reads.
LoaderKeys == {"latest-news", "fetch-metadata"}

NextLoader ==
  \/ Trigger("scheduled")
  \/ FetchAllNews("scheduled")
  \/ GetExisting("scheduled")
  \/ PutLatest("scheduled")
  \/ PutItem("scheduled")
  \/ UpdateFetchMetadata("scheduled")
  \/ \E k \in LoaderKeys : Expire(k)
  \/ LoaderRequest
  \/ LoaderGetNews
  \/ LoaderGetMetadata

SpecLoader == Init /\ [][NextLoader]_vars

(***************************************************************************)
(* SpecNews: requests to GET /news of the earlier worker                   *)
(* (workers/src/index.ts), one after another, over a store whose           *)
(* collection may expire.  The handler reads the store and, with no news   *)
(* in hand, runs fetchAllNews and storeNewsData itself; that run is the    *)
(* run of slot "manual".                                                   *)
(***************************************************************************)
\* The handler's answer: {success: true, count, news, fetchedAt}.
NewsResponse(items, fetchedAt) ==
  [sent |-> TRUE, success |-> TRUE, count |-> Len(items), news |-> items,
   fetchedAt |-> fetchedAt]

\* fetchedAt while the handler runs: new Date() at first, meta.lastFetch
\* once the metadata is read.
FetchedAt(time) == [sent |-> FALSE, fetchedAt |-> time]

newsRest == <<kv, kvBound, existingNews, mergedNews, itemIdx, unreadNews, response, clock,
              mergeVars, fetchVars, clientVars, refreshVars, callVars, fixtureVars>>

\* The request arrives: news = [], fetchedAt = now; with the binding the
\* read of 'latest-news' is issued.
NewsRequest ==
  /\ lpc \in {"idle", "done"}
  /\ pc["manual"] \in {"idle", "done"}
  /\ runsStarted < MaxRuns
  /\ runsStarted' = runsStarted + 1
  /\ now' = now + 1
  /\ lnews' = <<>>
  /\ lresponse' = FetchedAt(now + 1)
  /\ pc' = [pc EXCEPT !["manual"] = "idle"]
  /\ news' = [news EXCEPT !["manual"] = <<>>]
  /\ ops' = [ops EXCEPT !["manual"] = <<>>]
  /\ lpc' = IF kvBound THEN "getNews" ELSE "decide"
  /\ UNCHANGED newsRest

\* NEWS_KV.get('latest-news') completes; a get or JSON.parse that throws
\* leaves news empty and skips the read of the metadata.
NewsGetLatest ==
  /\ lpc = "getNews"
  /\ \E ok \in BOOLEAN :
       /\ ops' = [ops EXCEPT !["manual"] = Append(ops["manual"], KvOp("get", "latest-news", ok))]
       /\ lnews' = getExistingNewsFromKV(kv, ok)
       /\ lpc' = IF ok THEN "getMetadata" ELSE "decide"
  /\ UNCHANGED <<lresponse, pc, news, runsStarted, now, newsRest>>

\* NEWS_KV.get('fetch-metadata') completes: fetchedAt = meta.lastFetch when
\* the record is there; a throw is caught.
NewsGetMetadata ==
  /\ lpc = "getMetadata"
  /\ \E ok \in BOOLEAN :
       /\ ops' = [ops EXCEPT !["manual"] = Append(ops["manual"], KvOp("get", "fetch-metadata", ok))]
       /\ lresponse' = IF ok /\ kv["fetch-metadata"].present
                       THEN FetchedAt(kv["fetch-metadata"].value.lastFetch)
                       ELSE lresponse
  /\ lpc' = "decide"
  /\ UNCHANGED <<lnews, pc, news, runsStarted, now, newsRest>>

\* Variant of NewsDecide that fetches fresh data whatever was read.
NewsDecideAlwaysFresh ==
  /\ lpc = "decide"
  /\ lpc' = "pipeline"
  /\ pc' = [pc EXCEPT !["manual"] = "fetchAllNews"]
  /\ UNCHANGED lresponse
  /\ UNCHANGED <<lnews, news, ops, runsStarted, now, newsRest>>

\* if (news.length === 0): fetchAllNews is called and its batch stored;
\* otherwise the handler answers with the stored list.
NewsDecide ==
  /\ lpc = "decide"
  /\ IF lnews = <<>>
     THEN /\ lpc' = "pipeline"
          /\ pc' = [pc EXCEPT !["manual"] = "fetchAllNews"]
          /\ UNCHANGED lresponse
     ELSE /\ lpc' = "done"
          /\ lresponse' = NewsResponse(lnews, lresponse.fetchedAt)
          /\ UNCHANGED pc
  /\ UNCHANGED <<lnews, news, ops, runsStarted, now, newsRest>>

\* storeNewsData has returned: the handler answers with the fresh batch.
NewsAnswerFresh ==
  /\ lpc = "pipeline"
  /\ pc["manual"] = "done"
  /\ lresponse' = NewsResponse(news["manual"], now)
  /\ lpc' = "done"
  /\ UNCHANGED <<lnews, workerVars, mergeVars, fetchVars, clientVars, refreshVars,
                 callVars, fixtureVars>>

NextNews ==
  \/ FetchAllNews("manual")
  \/ GetExisting("manual")
  \/ PutLatest("manual")
  \/ PutItem("manual")
  \/ UpdateFetchMetadata("manual")
  \/ Expire("latest-news")
  \/ NewsRequest
  \/ NewsGetLatest
  \/ NewsGetMetadata
  \/ NewsDecide
  \/ NewsAnswerFresh

SpecNews == Init /\ [][NextNews]_vars

(***************************************************************************)
(* SpecTtl: cron cycles one after another while the days pass; NEWS_KV     *)
(* drops a record once the expirationTtl of its put has elapsed.           *)
(***************************************************************************)
\* A record is gone on day t: expirationTtl seconds have passed since its put.
ExpiredOn(rec, t) ==
  /\ rec.present
  /\ t * SecondsPerDay >= rec.writtenAt * SecondsPerDay + rec.expirationTtl

\* A day passes: the records whose time is up are no longer in the store.
\* One invocation of the Worker lasts far less than a day, so the day ends
\* between two cycles; the days are counted from the first cycle.
TimePasses ==
  /\ pc["scheduled"] = "done"
  /\ clock < MaxDays
  /\ clock' = clock + 1
  /\ kv' = [k \in Keys |-> IF ExpiredOn(kv[k], clock + 1) THEN NoValue ELSE kv[k]]
  /\ UNCHANGED <<pc, news, existingNews, mergedNews, itemIdx, unreadNews, response,
                 runsStarted, now, kvBound, ops, mergeVars, fixtureVars, fetchVars, loaderVars,
                 clientVars, refreshVars, callVars>>

NextTtl ==
  \/ Trigger("scheduled")
  \/ FetchAllNews("scheduled")
  \/ GetExisting("scheduled")
  \/ PutLatest("scheduled")
  \/ PutItem("scheduled")
  \/ UpdateFetchMetadata("scheduled")
  \/ TimePasses

SpecTtl == Init /\ [][NextTtl]_vars

(***************************************************************************)
(* SpecMerge: mergeNewsItems applied to every pair of bounded lists.       *)
(***************************************************************************)
RECURSIVE SeqsUpTo(_, _)
SeqsUpTo(S, n) ==
  IF n = 0 THEN {<<>>}
  ELSE LET shorter == SeqsUpTo(S, n - 1)
       IN  shorter \cup {Append(s, x) : s \in shorter, x \in S}

MergeInit ==
  /\ argExisting \in SeqsUpTo(NewsItems, MaxTotal)
  /\ argNew \in SeqsUpTo(NewsItems, MaxTotal - Len(argExisting))
  /\ resMerged = <<>>
  /\ resRemerged = <<>>
  /\ mstage = "input"

\* mergeNewsItems(argExisting, argNew), and the result merged with the same
\* batch again (a repeated identical fetch).
CallMerge ==
  /\ mstage = "input"
  /\ resMerged' = mergeNewsItems(argExisting, argNew)
  /\ resRemerged' = mergeNewsItems(mergeNewsItems(argExisting, argNew), argNew)
  /\ mstage' = "merged"
  /\ UNCHANGED <<argExisting, argNew, nonMergeVars>>

\* mergeNewsItems(X, X) for X = argExisting: the batch of a fetch that returns
\* exactly the stored list.
CallMergeSelf ==
  /\ mstage = "input"
  /\ argNew = <<>>
  /\ argNew' = argExisting
  /\ resMerged' = mergeNewsItems(argExisting, argExisting)
  /\ resRemerged' = mergeNewsItems(mergeNewsItems(argExisting, argExisting), argExisting)
  /\ mstage' = "merged"
  /\ UNCHANGED <<argExisting, nonMergeVars>>

NextMerge == CallMerge \/ CallMergeSelf

InitMerge == MergeInit /\ WorkerInit /\ kvBound = TRUE /\ FetchIdle /\ LoaderIdle /\ ClientIdle

SpecMerge == InitMerge /\ [][NextMerge]_vars

(***************************************************************************)
(* SpecClient: one page load of the browser client.  The page calls        *)
(* fetchAllData (which awaits loadStoredNews) or fetchLatestNews; the      *)
(* request to the worker URL meets one of six outcomes, and the bundled   *)
(* snapshot /news_fixture.json is served or not.                           *)
(***************************************************************************)
\* The bundled snapshot: news and video items in one array; its titles
\* carry the whitespace cleanNewsItem normalises.
FixtureNews1 ==
  [type |-> "news", id |-> "fixture-1", title |-> "Azores  news ", source |-> "azores.gov.pt",
   url |-> U1, publishedAt |-> 1]
FixtureVideo ==
  [type |-> "video", id |-> "video-1", title |-> "Azores video", source |-> "youtube.com",
   url |-> U2, publishedAt |-> 1]
FixtureNews2 ==
  [type |-> "news", id |-> "fixture-2", title |-> "Geopark", source |-> "azoresgeopark.com",
   url |-> U3, publishedAt |-> 2]
Fixture == <<FixtureNews1, FixtureVideo, FixtureNews2>>

\* getNewsFromFixture(allContent) = allContent.filter(item => item.type === 'news')
getNewsFromFixture(allContent) == SelectSeq(allContent, LAMBDA item : item.type = "news")

\* item.title.replace(/\s+/g, ' ') ... .trim() on the titles of the model.
CleanTitle(title) ==
  CASE title = "Azores  news " -> "Azores news"
    [] OTHER -> title

\* cleanNewsItem followed by the map of fetchAllData: {...item, cleanTitle,
\* ..., type: 'news'}; cleanTitle stands for the derived fields.
TypedCleanNewsItem(item) ==
  [type |-> "news", cleanTitle |-> CleanTitle(item.title)] @@ item

cleanNewsItems(items) == [i \in 1..Len(items) |-> TypedCleanNewsItem(items[i])]

\* What the worker can answer with status 2xx and success true: a list of
\* stored items and lastCronRun (null when no run completed).
WorkerItem1 == NewsItemOfScraped([url |-> U1, title |-> "new", publishedAt |-> 2])
WorkerItem2 == NewsItemOfScraped([url |-> U2, title |-> "old", publishedAt |-> 1])
WorkerPayloads == {<<>>, <<WorkerItem1>>, <<WorkerItem1, WorkerItem2>>}
CronRuns == {NoCronRun, 1}

\* What the request to the worker URL can meet: a 2xx body with success
\* true, the abort of fetchWithTimeout, a transport error, a non-2xx
\* status, a body with success false, a 2xx body response.json() cannot
\* parse.
LiveOutcomes == {"ok", "timeout", "transport", "non2xx", "successFalse", "badJson"}

\* The function settled with an array of items.
Items(items) == [kind |-> "items", items |-> items]
\* loadStoredNews settled with the worker's NewsResponse.
WorkerResponse(items, lastCronRun) ==
  [kind |-> "response", success |-> TRUE, news |-> items, lastCronRun |-> lastCronRun]
\* loadStoredNews rejected: 'Worker unavailable and fallback failed'.
Rejected == [kind |-> "rejected"]

\* loadFixtureData resolves when the data is cached or the file is served.
FixtureLoads == fixtureCache \/ fixtureAvailable

\* The snapshot read of the running function: loadStoredNews goes through
\* loadFixtureData and its cache, fetchLatestNews fetches the file itself.
SnapshotLoads == IF centry = "fetchAllData" THEN FixtureLoads ELSE fixtureAvailable
CacheAfterLoad == IF centry = "fetchAllData" THEN FixtureLoads ELSE fixtureCache

\* A mutant of ClientStart: the offline switch is not consulted.
ClientStartIgnoresSwitch ==
  /\ cpc = "idle"
  /\ loading' = IF centry = "fetchAllData" THEN TRUE ELSE loading
  /\ cpc' = "liveRequest"
  /\ workerRequests' = workerRequests + 1
  /\ UNCHANGED <<offline, fixtureAvailable, centry, liveOutcome, fixtureCache, result,
                 newsItems, lastFetchTime, workerVars, mergeVars, fixtureVars, fetchVars, loaderVars, refreshVars, callVars>>

\* The call starts and runs to its first await: fetchAllData sets loading;
\* with the offline switch set the function reads the snapshot, otherwise
\* it issues the request to the worker URL.
ClientStart ==
  /\ cpc = "idle"
  /\ loading' = IF centry = "fetchAllData" THEN TRUE ELSE loading
  /\ IF offline
     THEN /\ cpc' = "offlineLoad"
          /\ UNCHANGED workerRequests
     ELSE /\ cpc' = "liveRequest"
          /\ workerRequests' = workerRequests + 1
  /\ UNCHANGED <<offline, fixtureAvailable, centry, liveOutcome, fixtureCache, result,
                 newsItems, lastFetchTime, workerVars, mergeVars, fixtureVars, fetchVars, loaderVars, refreshVars, callVars>>

\* Offline branch: the snapshot's news items, [] when the read throws.
OfflineLoad ==
  /\ cpc = "offlineLoad"
  /\ result' = Items(IF SnapshotLoads THEN getNewsFromFixture(Fixture) ELSE <<>>)
  /\ fixtureCache' = CacheAfterLoad
  /\ cpc' = "resolved"
  /\ UNCHANGED <<offline, fixtureAvailable, centry, liveOutcome, workerRequests,
                 newsItems, loading, lastFetchTime, workerVars, mergeVars, fixtureVars, fetchVars,
                 loaderVars, refreshVars, callVars>>

\* The request to the worker URL settles.  With a 2xx body of success true
\* loadStoredNews resolves with the whole response and fetchLatestNews with
\* data.news; every other outcome throws into the catch block.
LiveResponds ==
  /\ cpc = "liveRequest"
  /\ \E o \in LiveOutcomes :
       /\ liveOutcome' = o
       /\ IF o = "ok"
          THEN /\ cpc' = "resolved"
               /\ \E items \in WorkerPayloads, lastCronRun \in CronRuns :
                    result' = IF centry = "fetchAllData"
                              THEN WorkerResponse(items, lastCronRun)
                              ELSE Items(items)
          ELSE /\ cpc' = "fallbackLoad"
               /\ UNCHANGED result
  /\ UNCHANGED <<offline, fixtureAvailable, centry, workerRequests, fixtureCache,
                 newsItems, loading, lastFetchTime, workerVars, mergeVars, fixtureVars, fetchVars,
                 loaderVars, refreshVars, callVars>>

\* A mutant of FallbackLoad: the catch block rethrows without reading the
\* snapshot.
FallbackLoadRethrow ==
  /\ cpc = "fallbackLoad"
  /\ result' = Rejected
  /\ cpc' = "resolved"
  /\ UNCHANGED <<offline, fixtureAvailable, centry, liveOutcome, workerRequests,
                 fixtureCache, newsItems, loading, lastFetchTime, workerVars, mergeVars, fixtureVars,
                 fetchVars, loaderVars, refreshVars, callVars>>

\* The catch block of the live request: the snapshot's news items; when the
\* snapshot read throws as well, loadStoredNews rejects and fetchLatestNews
\* returns [].
FallbackLoad ==
  /\ cpc = "fallbackLoad"
  /\ result' = IF SnapshotLoads THEN Items(getNewsFromFixture(Fixture))
               ELSE IF centry = "fetchAllData" THEN Rejected ELSE Items(<<>>)
  /\ fixtureCache' = CacheAfterLoad
  /\ cpc' = "resolved"
  /\ UNCHANGED <<offline, fixtureAvailable, centry, liveOutcome, workerRequests,
                 newsItems, loading, lastFetchTime, workerVars, mergeVars, fixtureVars, fetchVars,
                 loaderVars, refreshVars, callVars>>

\* newsData of fetchAllData after the await of loadStoredNews: the worker's
\* news when the response has any, the array when one was returned, []
\* when loadStoredNews rejected.
NewsDataOf(res) ==
  CASE res.kind = "response" -> res.news
    [] res.kind = "items" -> res.items
    [] OTHER -> <<>>

\* cronTimestamp of fetchAllData.
CronTimestampOf(res) == IF res.kind = "response" THEN res.lastCronRun ELSE NoCronRun

\* Variant of FetchAllDataFinish whose setLoading(false) is the last
\* statement of the try block: skipped when loadStoredNews rejected.
FetchAllDataFinishNoFinally ==
  /\ cpc = "resolved"
  /\ centry = "fetchAllData"
  /\ LET newsData == IF NewsDataOf(result) # <<>> THEN NewsDataOf(result)
                     ELSE IF FixtureLoads THEN getNewsFromFixture(Fixture) ELSE <<>>
     IN  newsItems' = cleanNewsItems(newsData)
  /\ fixtureCache' = FixtureLoads
  /\ lastFetchTime' = CronTimestampOf(result)
  /\ loading' = IF result.kind = "rejected" THEN loading ELSE FALSE
  /\ cpc' = "done"
  /\ UNCHANGED <<offline, fixtureAvailable, centry, liveOutcome, workerRequests, result,
                 workerVars, mergeVars, fixtureVars, fetchVars, loaderVars, refreshVars, callVars>>

\* The rest of fetchAllData: with no news data it reads the snapshot itself,
\* it reads the videos from the snapshot, cleans and types the news, sets
\* newsItems and lastFetchTime, and in finally sets loading to false.
FetchAllDataFinish ==
  /\ cpc = "resolved"
  /\ centry = "fetchAllData"
  /\ LET newsData == IF NewsDataOf(result) # <<>> THEN NewsDataOf(result)
                     ELSE IF FixtureLoads THEN getNewsFromFixture(Fixture) ELSE <<>>
     IN  newsItems' = cleanNewsItems(newsData)
  /\ fixtureCache' = FixtureLoads
  /\ lastFetchTime' = CronTimestampOf(result)
  /\ loading' = FALSE
  /\ cpc' = "done"
  /\ UNCHANGED <<offline, fixtureAvailable, centry, liveOutcome, workerRequests, result,
                 workerVars, mergeVars, fixtureVars, fetchVars, loaderVars, refreshVars, callVars>>

\* The caller of fetchLatestNews has its array.
FetchLatestNewsReturns ==
  /\ cpc = "resolved"
  /\ centry = "fetchLatestNews"
  /\ cpc' = "done"
  /\ UNCHANGED <<offline, fixtureAvailable, centry, liveOutcome, workerRequests,
                 fixtureCache, result, newsItems, loading, lastFetchTime, workerVars,
                 mergeVars, fixtureVars, fetchVars, loaderVars, refreshVars, callVars>>

NextClient ==
  \/ ClientStart
  \/ OfflineLoad
  \/ LiveResponds
  \/ FallbackLoad
  \/ FetchAllDataFinish
  \/ FetchLatestNewsReturns

\* A page load in any environment: offline switch set or not, snapshot
\* served or not, either function called.
InitClient ==
  /\ WorkerInit /\ kvBound = TRUE /\ MergeIdle /\ FetchIdle /\ LoaderIdle
  /\ RefreshIdle /\ CallIdle
  /\ ClientFresh
  /\ offline \in BOOLEAN
  /\ fixtureAvailable \in BOOLEAN
  /\ centry \in {"fetchAllData", "fetchLatestNews"}

\* The browser runs every pending continuation: the effect starts on mount,
\* fetch settles (fetchWithTimeout aborts it after WORKER_TIMEOUT), and a
\* settled promise resumes its awaiter.
SpecClient == InitClient /\ [][NextClient]_vars /\ WF_vars(NextClient)

(***************************************************************************)
(* SpecRefresh: one manual refresh of a loaded dashboard.  refreshNews     *)
(* awaits scrapeLatestNews, which awaits triggerNewsScraping (POST         *)
(* /news-scraper) and then loadStoredNews (GET /news-loader); the interval *)
(* timer counts the seconds shown to the user.                             *)
(***************************************************************************)
\* WORKER_TIMEOUT / 1000: the seconds after which fetchWithTimeout aborts a
\* request, and the bound displayed beside timeoutCounter.
WORKER_TIMEOUT_SECONDS == 30

\* lastCronRun of the trigger's answer: new Date().toISOString(), never null.
TriggerCronRuns == {1, 2}

\* The return values of triggerNewsScraping; met records what its request
\* met.
ScrapeOk(lastCronRun) ==
  [settled |-> TRUE, success |-> TRUE, lastCronRun |-> lastCronRun, met |-> "ok"]
ScrapeFailed(o) == [settled |-> TRUE, success |-> FALSE, met |-> o]

\* A request aborted by fetchWithTimeout has been in flight for the whole
\* timeout; any other outcome arrives before the abort.
ArrivesAs(o) ==
  IF o = "timeout" THEN reqElapsed = WORKER_TIMEOUT_SECONDS
  ELSE reqElapsed < WORKER_TIMEOUT_SECONDS

\* The finally block of refreshNews.
RefreshFinally ==
  /\ refreshing' = FALSE
  /\ timeoutCounter' = 0
  /\ rpc' = "done"

\* The click on the refresh button: refreshing, counter reset, interval
\* started; triggerNewsScraping issues POST /news-scraper (it does not
\* consult the offline switch).
RefreshStart ==
  /\ rpc = "idle"
  /\ refreshing' = TRUE
  /\ timeoutCounter' = 0
  /\ reqElapsed' = 0
  /\ workerRequests' = workerRequests + 1
  /\ rpc' = "trigger"
  /\ UNCHANGED <<alertShown, scrapeResult, offline, fixtureAvailable, centry, cpc,
                 liveOutcome, fixtureCache, result, newsItems, loading, lastFetchTime,
                 workerVars, mergeVars, fixtureVars, fetchVars, loaderVars, callVars>>

\* One second passes with a request in flight: the interval callback
\* increments timeoutCounter.
Tick ==
  /\ rpc \in {"trigger", "reload"}
  /\ reqElapsed < WORKER_TIMEOUT_SECONDS
  /\ reqElapsed' = reqElapsed + 1
  /\ timeoutCounter' = timeoutCounter + 1
  /\ UNCHANGED <<rpc, refreshing, alertShown, scrapeResult, clientVars,
                 workerVars, mergeVars, fixtureVars, fetchVars, loaderVars, callVars>>

\* POST /news-scraper settles.  On success scrapeLatestNews goes on to
\* loadStoredNews, which reads the snapshot when the offline switch is set
\* and issues GET /news-loader with a fresh timeout otherwise.  On failure
\* scrapeLatestNews returns success false and refreshNews alerts.
TriggerResponds ==
  /\ rpc = "trigger"
  /\ \E o \in LiveOutcomes :
       /\ ArrivesAs(o)
       /\ IF o = "ok"
          THEN /\ \E lastCronRun \in TriggerCronRuns : scrapeResult' = ScrapeOk(lastCronRun)
               /\ reqElapsed' = 0
               /\ IF offline
                  THEN rpc' = "reloadOffline" /\ UNCHANGED workerRequests
                  ELSE rpc' = "reload" /\ workerRequests' = workerRequests + 1
               /\ UNCHANGED <<refreshing, timeoutCounter, alertShown>>
          ELSE /\ scrapeResult' = ScrapeFailed(o)
               /\ alertShown' = TRUE
               /\ RefreshFinally
               /\ UNCHANGED <<reqElapsed, workerRequests>>
  /\ UNCHANGED <<offline, fixtureAvailable, centry, cpc, liveOutcome, fixtureCache,
                 result, newsItems, loading, lastFetchTime,
                 workerVars, mergeVars, fixtureVars, fetchVars, loaderVars, callVars>>

\* refreshNews with a successful scrapeResult carrying the list items:
\* setLastFetchTime, setNewsItems of the cleaned and typed items.
RefreshShows(items) ==
  /\ lastFetchTime' = scrapeResult.lastCronRun
  /\ newsItems' = cleanNewsItems(items)

\* GET /news-loader settles.  A response of success true gives its news;
\* any failure is caught inside loadStoredNews, which returns the
\* snapshot's news items when the snapshot loads and throws otherwise;
\* only the throw reaches scrapeLatestNews and becomes an alert.
ReloadResponds ==
  /\ rpc = "reload"
  /\ \E o \in LiveOutcomes :
       /\ ArrivesAs(o)
       /\ liveOutcome' = o
       /\ IF o = "ok"
          THEN /\ \E items \in WorkerPayloads : RefreshShows(items)
               /\ UNCHANGED <<alertShown, fixtureCache>>
          ELSE IF FixtureLoads
               THEN /\ RefreshShows(getNewsFromFixture(Fixture))
                    /\ fixtureCache' = TRUE
                    /\ UNCHANGED alertShown
               ELSE /\ alertShown' = TRUE
                    /\ UNCHANGED <<newsItems, lastFetchTime, fixtureCache>>
  /\ RefreshFinally
  /\ UNCHANGED <<reqElapsed, scrapeResult, offline, fixtureAvailable, centry, cpc,
                 workerRequests, result, loading,
                 workerVars, mergeVars, fixtureVars, fetchVars, loaderVars, callVars>>

\* loadStoredNews with the offline switch set: the snapshot's news items,
\* [] when the snapshot read throws.
ReloadOffline ==
  /\ rpc = "reloadOffline"
  /\ RefreshShows(IF FixtureLoads THEN getNewsFromFixture(Fixture) ELSE <<>>)
  /\ fixtureCache' = FixtureLoads
  /\ RefreshFinally
  /\ UNCHANGED <<alertShown, reqElapsed, scrapeResult, offline, fixtureAvailable, centry,
                 cpc, liveOutcome, workerRequests, result, loading,
                 workerVars, mergeVars, fixtureVars, fetchVars, loaderVars, callVars>>

NextRefresh ==
  \/ RefreshStart
  \/ Tick
  \/ TriggerResponds
  \/ ReloadResponds
  \/ ReloadOffline

\* A dashboard whose initial load showed news served by the worker; the
\* snapshot may or may not be cached and may or may not be served now.
InitRefresh ==
  /\ WorkerInit /\ kvBound = TRUE /\ MergeIdle /\ FetchIdle /\ LoaderIdle
  /\ RefreshIdle /\ CallIdle
  /\ offline \in BOOLEAN
  /\ fixtureAvailable \in BOOLEAN
  /\ fixtureCache \in BOOLEAN
  /\ centry = "fetchAllData"
  /\ cpc = "done"
  /\ liveOutcome = "none"
  /\ workerRequests = 0
  /\ \E items \in WorkerPayloads \ {<<>>}, lastCronRun \in CronRuns :
       /\ result = WorkerResponse(items, lastCronRun)
       /\ newsItems = cleanNewsItems(items)
       /\ lastFetchTime = lastCronRun
  /\ loading = FALSE

SpecRefresh == InitRefresh /\ [][NextRefresh]_vars

(***************************************************************************)
(* SpecLive: the live attempt of loadStoredNews second by second.          *)
(* fetchWithTimeout arms a timer, awaits fetch (which resolves when the    *)
(* response headers are in) and clears the timer; loadStoredNews then      *)
(* awaits response.json(), which resolves when the body is in.             *)
(***************************************************************************)
liveRest == <<offline, fixtureAvailable, centry, fixtureCache, newsItems, loading,
              lastFetchTime, rpc, refreshing, timeoutCounter, alertShown, scrapeResult,
              workerVars, mergeVars, fixtureVars, fetchVars, loaderVars, callVars>>

\* loadStoredNews issues GET /news-loader: setTimeout(abort, timeout), fetch.
LiveIssue ==
  /\ cpc = "idle"
  /\ ~offline
  /\ cpc' = "awaitHeaders"
  /\ reqElapsed' = 0
  /\ workerRequests' = workerRequests + 1
  /\ UNCHANGED <<liveOutcome, result, liveRest>>

\* A second passes while loadStoredNews awaits; while the timer is armed
\* the abort comes first at the timeout.
LiveSecond ==
  /\ \/ cpc = "awaitHeaders" /\ reqElapsed < WORKER_TIMEOUT_SECONDS
     \/ cpc = "awaitBody" /\ reqElapsed < MaxElapsed
  /\ reqElapsed' = reqElapsed + 1
  /\ UNCHANGED <<cpc, workerRequests, liveOutcome, result, liveRest>>

\* The timer fires before fetch has settled: controller.abort(), fetch
\* rejects with AbortError, fetchWithTimeout throws 'Request timed out'.
LiveAbort ==
  /\ cpc = "awaitHeaders"
  /\ reqElapsed = WORKER_TIMEOUT_SECONDS
  /\ liveOutcome' = "timeout"
  /\ cpc' = "fallbackLoad"
  /\ UNCHANGED <<reqElapsed, workerRequests, result, liveRest>>

\* fetch settles before the timer fires: clearTimeout.  A rejection and a
\* non-2xx status throw into the catch block; with a 2xx status
\* loadStoredNews goes on to await response.json().
LiveHeaders ==
  /\ cpc = "awaitHeaders"
  /\ reqElapsed < WORKER_TIMEOUT_SECONDS
  /\ \E o \in {"transport", "non2xx", "2xx"} :
       IF o = "2xx"
       THEN cpc' = "awaitBody" /\ UNCHANGED liveOutcome
       ELSE cpc' = "fallbackLoad" /\ liveOutcome' = o
  /\ UNCHANGED <<reqElapsed, workerRequests, result, liveRest>>

\* response.json() settles, at whatever time the body is complete.
LiveBody ==
  /\ cpc = "awaitBody"
  /\ \E o \in {"ok", "successFalse", "badJson"} :
       /\ liveOutcome' = o
       /\ IF o = "ok"
          THEN /\ cpc' = "resolved"
               /\ \E items \in WorkerPayloads, lastCronRun \in CronRuns :
                    result' = WorkerResponse(items, lastCronRun)
          ELSE /\ cpc' = "fallbackLoad"
               /\ UNCHANGED result
  /\ UNCHANGED <<reqElapsed, workerRequests, liveRest>>

NextLive ==
  \/ LiveIssue
  \/ LiveSecond
  \/ LiveAbort
  \/ LiveHeaders
  \/ LiveBody
  \/ FallbackLoad

\* A call of loadStoredNews with the offline switch off.
InitLive ==
  /\ WorkerInit /\ kvBound = TRUE /\ MergeIdle /\ FetchIdle /\ LoaderIdle
  /\ RefreshIdle /\ CallIdle
  /\ ClientFresh
  /\ offline = FALSE
  /\ fixtureAvailable \in BOOLEAN
  /\ centry = "fetchAllData"

SpecLive == InitLive /\ [][NextLive]_vars

(***************************************************************************)
(* SpecFixture: callers of loadFixtureData sharing the module variables    *)
(* fixtureCache and fixturePromise; SpecFixtureClear adds calls of         *)
(* clearFixtureCache.  JavaScript runs each call up to its await, and the  *)
(* handlers of a settled request together with the resumption of its      *)
(* awaiters, without interleaving.                                         *)
(***************************************************************************)
fixtureRest == <<offline, fixtureAvailable, centry, cpc, liveOutcome, workerRequests,
                 result, newsItems, loading, lastFetchTime, refreshVars,
                 workerVars, mergeVars, fetchVars, loaderVars, callVars>>

\* The next request for /news_fixture.json not yet made.
NextFixtureRequest == CHOOSE id \in 1..MaxFixtureRequests :
                        /\ fxReq[id] = "unissued"
                        /\ \A j \in 1..(id - 1) : fxReq[j] # "unissued"

\* Variant of loadFixtureData that does not look at fixturePromise.
loadFixtureDataNoWait(c) ==
  /\ fxCall[c].pc = "idle"
  /\ fxCleared' = FALSE
  /\ IF fixtureCache
     THEN /\ fxCall' = [fxCall EXCEPT ![c] = [pc |-> "returned", on |-> 0, got |-> fxData]]
          /\ UNCHANGED <<fixturePromise, fxReq>>
     ELSE /\ \E id \in 1..MaxFixtureRequests : fxReq[id] = "unissued"
          /\ fxReq' = [fxReq EXCEPT ![NextFixtureRequest] = "inFlight"]
          /\ fixturePromise' = NextFixtureRequest
          /\ fxCall' = [fxCall EXCEPT ![c] =
                         [pc |-> "waiting", on |-> NextFixtureRequest, got |-> 0]]
  /\ UNCHANGED <<fixtureCache, fxData, fixtureRest>>

\* loadFixtureData() up to its return or await: the cached data, the
\* request in progress, or a new request.
loadFixtureData(c) ==
  /\ fxCall[c].pc = "idle"
  /\ fxCleared' = FALSE
  /\ IF fixtureCache
     THEN /\ fxCall' = [fxCall EXCEPT ![c] = [pc |-> "returned", on |-> 0, got |-> fxData]]
          /\ UNCHANGED <<fixturePromise, fxReq>>
     ELSE IF fixturePromise # 0
     THEN /\ fxCall' = [fxCall EXCEPT ![c] =
                         [pc |-> "waiting", on |-> fixturePromise, got |-> 0]]
          /\ UNCHANGED <<fixturePromise, fxReq>>
     ELSE /\ \E id \in 1..MaxFixtureRequests : fxReq[id] = "unissued"
          /\ fxReq' = [fxReq EXCEPT ![NextFixtureRequest] = "inFlight"]
          /\ fixturePromise' = NextFixtureRequest
          /\ fxCall' = [fxCall EXCEPT ![c] =
                         [pc |-> "waiting", on |-> NextFixtureRequest, got |-> 0]]
  /\ UNCHANGED <<fixtureCache, fxData, fixtureRest>>

\* The awaiters of request id resume with its data or its error.
Resumed(id, ok) ==
  [c \in 1..MaxCallers |->
     IF fxCall[c].pc = "waiting" /\ fxCall[c].on = id
     THEN [pc |-> IF ok THEN "returned" ELSE "threw", on |-> id, got |-> IF ok THEN id ELSE 0]
     ELSE fxCall[c]]

\* A request settles.  .then(data => {fixtureCache = data; fixturePromise =
\* null}) or .catch(error => {fixturePromise = null; throw error}).
FixtureSettles(id) ==
  /\ fxReq[id] = "inFlight"
  /\ \E ok \in BOOLEAN :
       /\ fxReq' = [fxReq EXCEPT ![id] = IF ok THEN "ok" ELSE "failed"]
       /\ fixtureCache' = IF ok THEN TRUE ELSE fixtureCache
       /\ fxData' = IF ok THEN id ELSE fxData
       /\ fxCall' = Resumed(id, ok)
  /\ fixturePromise' = 0
  /\ UNCHANGED <<fxCleared, fixtureRest>>

\* The caller has its data or its error and may call again.
FixtureCallEnds(c) ==
  /\ fxCall[c].pc \in {"returned", "threw"}
  /\ fxCall' = [fxCall EXCEPT ![c] = NotCalling]
  /\ UNCHANGED <<fixtureCache, fixturePromise, fxData, fxReq, fxCleared, fixtureRest>>

\* clearFixtureCache(): fixtureCache = null; fixturePromise = null.
clearFixtureCache ==
  /\ fixtureCache' = FALSE
  /\ fxData' = 0
  /\ fixturePromise' = 0
  /\ fxCleared' = TRUE
  /\ UNCHANGED <<fxReq, fxCall, fixtureRest>>

NextFixture ==
  \/ \E c \in 1..MaxCallers : loadFixtureData(c)
  \/ \E id \in 1..MaxFixtureRequests : FixtureSettles(id)
  \/ \E c \in 1..MaxCallers : FixtureCallEnds(c)

NextFixtureClear ==
  \/ \E c \in 1..MaxCallers : loadFixtureData(c)
  \/ \E id \in 1..MaxFixtureRequests : FixtureSettles(id)
  \/ \E c \in 1..MaxCallers : FixtureCallEnds(c)
  \/ clearFixtureCache

\* The module freshly loaded in a page.
InitFixture ==
  /\ WorkerInit /\ kvBound = TRUE /\ MergeIdle /\ FetchIdle /\ LoaderIdle
  /\ PageIdle /\ CallIdle

SpecFixture == InitFixture /\ [][NextFixture]_vars

SpecFixtureClear == InitFixture /\ [][NextFixtureClear]_vars

(***************************************************************************)
(* SpecParse: one call of an adapter's parser on a feed or page of up to   *)
(* MaxEntries entries, each with or without a title, a link (absolute or   *)
(* relative) and a publish date (parsable or not).                         *)
(***************************************************************************)
\* A regular expression that found nothing.
NoMatch == "<no match>"
NoLink == [scheme |-> NoMatch, host |-> "", path |-> ""]

\* What new Date(text) makes of the date texts of the model; the others
\* give Invalid Date, on which toISOString() throws RangeError.
DateTexts == {"Mon, 01 Jan 2024", "Tue, 02 Jan 2024"}
InvalidDateText == "yesterday"
ParseDate(text) ==
  CASE text = "Mon, 01 Jan 2024" -> 1
    [] text = "Tue, 02 Jan 2024" -> 2

\* new Date().toISOString() during the parse: after every publish date.
AcquiredAt == MaxTime + 1

\* One <item> or container of the markup.
MarkupEntries ==
  [title : {NoMatch, "old"},
   link : {NoLink, U1, U3, RelLink},
   date : {NoMatch, InvalidDateText} \cup DateTexts]

Markups == UNION {[1..n -> MarkupEntries] : n \in 0..MaxEntries}

\* The entry passes the title and link tests of the three parsers.
HasTitleAndLink(e) == e.title # NoMatch /\ e.link # NoLink

\* new Date(e.date).toISOString() throws.
DateThrows(e) == e.date = InvalidDateText

\* publishedAt of an entry whose date does not throw: the parsed date, or
\* the acquisition time when the markup has none.
PublishedAtOf(e) == IF e.date = NoMatch THEN AcquiredAt ELSE ParseDate(e.date)

\* The raw item of an entry: title, link as found, publishedAt.
RawOf(e, publishedAt) == [url |-> e.link, title |-> e.title, publishedAt |-> publishedAt]

\* The while loop of parseRSSFeed (part_008:42-67): entries without title
\* or link are skipped; the date conversion is not guarded, so its
\* RangeError leaves the loop and the catch of the function returns [].
parseRSSFeedText(text) ==
  IF \E i \in 1..Len(text) : HasTitleAndLink(text[i]) /\ DateThrows(text[i])
  THEN <<>>
  ELSE LET kept == SelectSeq(text, HasTitleAndLink)
       IN  parseRSSFeed([i \in 1..Len(kept) |-> RawOf(kept[i], PublishedAtOf(kept[i]))])

\* The while loop of parseNewsFromHTML: each container is parsed inside its
\* own try; a container without title or link, or whose date conversion
\* throws, is skipped.
parseNewsFromHTML(html) ==
  LET kept == SelectSeq(html, LAMBDA e : HasTitleAndLink(e) /\ ~DateThrows(e))
  IN  [i \in 1..Len(kept) |-> RawOf(kept[i], PublishedAtOf(kept[i]))]

\* The while loop of scrapeUniversidadeAzores: the date conversion has its
\* own try, and publishedAt stays the acquisition time when it throws.
\* (The loop stops at 10 items, more than a markup of the model holds.)
scrapeUniversidadeAzoresXml(xml) ==
  LET kept == SelectSeq(xml, HasTitleAndLink)
  IN  [i \in 1..Len(kept) |->
         RawOf(kept[i], IF DateThrows(kept[i]) THEN AcquiredAt ELSE PublishedAtOf(kept[i]))]

\* The three parsers, each followed by what turns its output into
\* NewsItems: parseRSSFeed builds them itself, scrapeWebsite applies
\* convertScrapedToNews to the output of scrapeInovaAzores
\* (parseNewsFromHTML) and scrapeUniversidadeAzores.
Parsers == {"parseRSSFeed", "parseNewsFromHTML", "scrapeUniversidadeAzores"}
EmittedBy(parser, markup) ==
  CASE parser = "parseRSSFeed" -> parseRSSFeedText(markup)
    [] parser = "parseNewsFromHTML" -> convertScrapedToNews(parseNewsFromHTML(markup))
    [] parser = "scrapeUniversidadeAzores" ->
         convertScrapedToNews(scrapeUniversidadeAzoresXml(markup))

\* Everything but the function under examination is idle.
SystemIdle ==
  /\ WorkerInit /\ kvBound = TRUE /\ MergeIdle /\ FetchIdle /\ LoaderIdle
  /\ PageIdle

InitParse ==
  /\ SystemIdle
  /\ callFn \in Parsers
  /\ callArg \in Markups
  /\ callRet = <<>>
  /\ callStage = "input"

\* The parser returns, and its items are NewsItems.
CallParser ==
  /\ callStage = "input"
  /\ callFn \in Parsers
  /\ callRet' = EmittedBy(callFn, callArg)
  /\ callStage' = "returned"
  /\ UNCHANGED <<callFn, callArg, workerVars, mergeVars, fixtureVars, fetchVars, loaderVars,
                 clientVars, refreshVars>>

NextParse == CallParser

SpecParse == InitParse /\ [][NextParse]_vars

(***************************************************************************)
(* SpecTags: one call of extractTags.  A title or summary is the set of    *)
(* its phrases; includes() is decided per phrase (no configured term       *)
(* spans two phrases of the model).                                        *)
(***************************************************************************)
TitlePhrases ==
  {"New", "Permaculture", "Project in", "São Miguel", "PERMACULTURA",
   "Climate Change Research"}
SummaryPhrases ==
  {"Sustainable", "agriculture initiative in the", "Azores", "sustainability",
   "environmental"}

\* String.prototype.toLowerCase on the phrases of the model.
ToLowerCase(phrase) ==
  CASE phrase = "New" -> "new"
    [] phrase = "Permaculture" -> "permaculture"
    [] phrase = "Project in" -> "project in"
    [] phrase = "São Miguel" -> "são miguel"
    [] phrase = "PERMACULTURA" -> "permacultura"
    [] phrase = "Climate Change Research" -> "climate change research"
    [] phrase = "Sustainable" -> "sustainable"
    [] phrase = "Azores" -> "azores"
    [] OTHER -> phrase

\* The configured terms that are substrings of a lower-case phrase.
TermsWithin(lower) ==
  CASE lower = "permaculture" -> {"permaculture"}
    [] lower = "permacultura" -> {"permacultura"}
    [] lower = "são miguel" -> {"são miguel"}
    [] lower = "climate change research" -> {"climate", "clima", "research"}
    [] lower = "azores" -> {"azores"}
    [] lower = "sustainability" -> {"sustainability"}
    [] lower = "environmental" -> {"environment"}
    [] OTHER -> {}

\* text.includes(term), text being the lower-cased phrases.
Includes(text, term) == \E lower \in text : term \in TermsWithin(lower)

\* The if statements of extractAzoresTags, extractPermacultureTags and
\* extractPolicyTags, in the order extractTags concatenates them.
TagRules ==
  << [tag |-> "azores", terms |-> {"açores", "azores"}],
     [tag |-> "sao-miguel", terms |-> {"são miguel", "sao miguel"}],
     [tag |-> "ponta-delgada", terms |-> {"ponta delgada"}],
     [tag |-> "permaculture", terms |-> {"permaculture", "permacultura"}],
     [tag |-> "agroforestry", terms |-> {"agroforestry", "agrofloresta"}],
     [tag |-> "regeneration", terms |-> {"regeneration", "regeneração"}],
     [tag |-> "sustainability", terms |-> {"sustainability", "sustentabilidade"}],
     [tag |-> "climate", terms |-> {"climate", "clima"}],
     [tag |-> "environment", terms |-> {"environment", "ambiente"}],
     [tag |-> "policy", terms |-> {"policy", "política"}],
     [tag |-> "research", terms |-> {"research", "investigação"}],
     [tag |-> "innovation", terms |-> {"innovation", "inovação"}] >>

\* [...new Set(allTags)]: the first occurrence of each element, in order.
Dedupe(seq) ==
  SelectSeq([i \in 1..Len(seq) |-> [at |-> i, v |-> seq[i]]],
            LAMBDA e : \A j \in 1..(e.at - 1) : seq[j] # e.v)

\* extractTags(title, summary)
extractTags(title, summary) ==
  LET text == {ToLowerCase(phrase) : phrase \in title \cup summary}
      hits == SelectSeq(TagRules, LAMBDA rule : \E term \in rule.terms : Includes(text, term))
      allTags == [i \in 1..Len(hits) |-> hits[i].tag]
      unique == Dedupe(allTags)
  IN  [i \in 1..Len(unique) |-> unique[i].v]

InitTags ==
  /\ SystemIdle
  /\ callFn = "extractTags"
  /\ callArg \in [title : SUBSET TitlePhrases, summary : SUBSET SummaryPhrases]
  /\ callRet = <<>>
  /\ callStage = "input"

CallExtractTags ==
  /\ callStage = "input"
  /\ callFn = "extractTags"
  /\ callRet' = extractTags(callArg.title, callArg.summary)
  /\ callStage' = "returned"
  /\ UNCHANGED <<callFn, callArg, workerVars, mergeVars, fixtureVars, fetchVars, loaderVars,
                 clientVars, refreshVars>>

NextTags == CallExtractTags

SpecTags == InitTags /\ [][NextTags]_vars

(***************************************************************************)
(* SpecIds: generateId called on the URLs of two articles.                 *)
(***************************************************************************)
\* The first nine characters of an absolute URL: its scheme and the first
\* character of its host. btoa turns them into the twelve characters kept.
FirstNine(url) == <<url.scheme, FirstChar(url.host)>>

InitIds ==
  /\ SystemIdle
  /\ callFn = "generateId"
  /\ callArg \in (URLs \cup SourceUrls) \X (URLs \cup SourceUrls)
  /\ callRet = <<>>
  /\ callStage = "input"

CallGenerateId ==
  /\ callStage = "input"
  /\ callFn = "generateId"
  /\ callRet' = <<generateId(callArg[1]), generateId(callArg[2])>>
  /\ callStage' = "returned"
  /\ UNCHANGED <<callFn, callArg, workerVars, mergeVars, fixtureVars, fetchVars, loaderVars,
                 clientVars, refreshVars>>

NextIds == CallGenerateId

SpecIds == InitIds /\ [][NextIds]_vars

(***************************************************************************)
(* Properties.                                                             *)
(***************************************************************************)
Range(seq) == {seq[i] : i \in 1..Len(seq)}
Urls(seq) == {seq[i].url : i \in 1..Len(seq)}
Count(seq, v) == Cardinality({i \in 1..Len(seq) : seq[i] = v})
DistinctUrls(seq) == \A i, j \in 1..Len(seq) : seq[i].url = seq[j].url => i = j
DistinctIds(seq) == \A i, j \in 1..Len(seq) : seq[i].id = seq[j].id => i = j
SortedDesc(seq) == \A i \in 1..(Len(seq) - 1) : seq[i].publishedAt >= seq[i + 1].publishedAt
IsPrefix(s, t) == Len(s) <= Len(t) /\ s = SubSeq(t, 1, Len(s))
AtTime(seq, t) == SelectSeq(seq, LAMBDA item : item.publishedAt = t)

\* The incoming items whose URL is not in the existing list, and the
\* concatenation the merge sorts.
Surviving(existing, incoming) == SelectSeq(incoming, LAMBDA item : item.url \notin Urls(existing))
Concatenation(existing, incoming) == existing \o Surviving(existing, incoming)

\* item is in coll, or coll is full of items at least as recent as item.
Retained(item, coll) ==
  \/ item.url \in Urls(coll)
  \/ /\ Len(coll) >= MAX_NEWS_ITEMS
     /\ \A j \in 1..Len(coll) : coll[j].publishedAt >= item.publishedAt

Merged(r) == pc[r] \in {"putLatest", "putItems", "putMetadata", "done"}

\* C1 -- Size bound: mergeNewsItems(existing, incoming) never has more items
\* than the cap, for every existing list and every incoming batch.
C1_SizeBound == mstage = "merged" => Len(resMerged) <= MAX_NEWS_ITEMS

\* C1 witness: more items than the cap go into the sort and exactly the cap
\* come out.
C1_Witness ==
  /\ mstage = "merged"
  /\ Len(Concatenation(argExisting, argNew)) > MAX_NEWS_ITEMS
  /\ Len(resMerged) = MAX_NEWS_ITEMS

\* C1, the consequence for the store: the collection under 'latest-news'
\* and every list a run is about to write have at most cap items.
C1_StoreSizeBound ==
  /\ Len(Latest) <= MAX_NEWS_ITEMS
  /\ \A r \in Slots : Len(mergedNews[r]) <= MAX_NEWS_ITEMS

\* C2 -- Dedup (the claim as stated): the persisted collection never holds
\* two items with the same URL.
C2_StoreHasOneItemPerUrl == DistinctUrls(Latest)

\* C3 -- Lost update (the claim as stated): once no run is in progress, every
\* item a completed run merged is in the persisted collection, unless the
\* collection is full of items at least as recent.  Stated for behaviours
\* in which every KV read delivered what was stored.
C3_NoLostUpdate ==
  ((\A r \in Slots : pc[r] \in {"idle", "done"}) /\ (\A r \in Slots : unreadNews[r] = <<>>))
    => \A r \in Slots : \A i \in 1..Len(mergedNews[r]) : Retained(mergedNews[r][i], Latest)

\* C4 -- Prior data survives store read failures (the claim as stated): a run
\* whose read failed while a non-empty collection was stored does not write
\* a collection that lacks the items of that collection (up to the cap).
C4_PriorDataSurvives ==
  \A r \in Slots :
    pc[r] \in {"putItems", "putMetadata", "done"} =>
      \A i \in 1..Len(unreadNews[r]) : Retained(unreadNews[r][i], mergedNews[r])

\* C5 -- First-seen wins (the claim as stated): an incoming item with the URL
\* of an existing item leaves that existing item in the merged output, and
\* is itself not in the output.  Stated for runs whose existing list has
\* one item per URL.
C5_ExistingAlwaysKept ==
  \A r \in Slots :
    (Merged(r) /\ DistinctUrls(existingNews[r])) =>
      \A n \in Range(news[r]), e \in Range(existingNews[r]) :
        n.url = e.url =>
          /\ e \in Range(mergedNews[r])
          /\ (n # e => n \notin Range(mergedNews[r]))

\* C5 as amended -- an incoming item with the URL of an existing item is not
\* added: every output item with that URL is an item of the existing list,
\* unchanged, and there are no more of them than in the existing list; each
\* existing item of that URL is in the output unless the cap cut it off, the
\* output then being full of items at least as recent.
C5_FirstSeenWins ==
  \A r \in Slots :
    Merged(r) =>
      \A n \in Range(news[r]) :
        n.url \in Urls(existingNews[r]) =>
          /\ \A m \in Range(mergedNews[r]) :
               m.url = n.url =>
                 /\ m \in Range(existingNews[r])
                 /\ Count(mergedNews[r], m) <= Count(existingNews[r], m)
          /\ \A e \in Range(existingNews[r]) :
               e.url = n.url =>
                 \/ e \in Range(mergedNews[r])
                 \/ /\ Len(mergedNews[r]) = MAX_NEWS_ITEMS
                    /\ \A j \in 1..Len(mergedNews[r]) :
                         mergedNews[r][j].publishedAt >= e.publishedAt

\* C5 witness: a run merged a batch holding an item with the URL of an
\* existing item but other content, and the existing item is in the output.
C5_Witness ==
  \E r \in Slots :
    /\ Merged(r)
    /\ \E n \in Range(news[r]), e \in Range(existingNews[r]) :
         /\ n.url = e.url
         /\ n.title # e.title
         /\ e \in Range(mergedNews[r])
         /\ n \notin Range(mergedNews[r])

\* C6 -- Ordering: adjacent items of the merged output are in descending
\* publishedAt order.
C6_Ordering == mstage = "merged" => SortedDesc(resMerged)

\* C6 witness: the concatenation was not in order, so the sort moved an item.
C6_Witness ==
  /\ mstage = "merged"
  /\ Len(resMerged) >= 2
  /\ ~SortedDesc(Concatenation(argExisting, argNew))
  /\ resMerged[1].publishedAt > resMerged[2].publishedAt

\* C7 -- Idempotence (the claim as stated): for X with one item per URL and
\* at most cap items, mergeNewsItems(X, X) has the items of X, no two with
\* the same id or URL, in descending publishedAt order, and merging the
\* result with X again changes nothing.
C7_Idempotence ==
  (mstage = "merged" /\ argExisting = argNew /\ DistinctUrls(argNew)
     /\ Len(argNew) <= MAX_NEWS_ITEMS)
    => /\ Len(resMerged) = Len(argNew)
       /\ Range(resMerged) = Range(argNew)
       /\ DistinctUrls(resMerged)
       /\ DistinctIds(resMerged)
       /\ SortedDesc(resMerged)
       /\ resRemerged = resMerged

\* C7 without the id clause: what mergeNewsItems(X, X) does guarantee.
C7_IdempotenceUpToIds ==
  (mstage = "merged" /\ argExisting = argNew /\ DistinctUrls(argNew)
     /\ Len(argNew) <= MAX_NEWS_ITEMS)
    => /\ Len(resMerged) = Len(argNew)
       /\ Range(resMerged) = Range(argNew)
       /\ DistinctUrls(resMerged)
       /\ SortedDesc(resMerged)
       /\ resRemerged = resMerged

\* C8 -- Truncation drops the oldest: the output is part of the
\* concatenation, has min(cap, length) items, and every item left out is at
\* most as recent as every item kept.
C8_TruncationDropsOldest ==
  mstage = "merged" =>
    LET all == Concatenation(argExisting, argNew)
    IN  /\ Len(resMerged) = Min(Len(all), MAX_NEWS_ITEMS)
        /\ \A v \in Range(resMerged) : Count(resMerged, v) <= Count(all, v)
        /\ \A v \in Range(all) :
             Count(resMerged, v) < Count(all, v) =>
               \A k \in 1..Len(resMerged) : v.publishedAt <= resMerged[k].publishedAt

\* C8 witness: an existing item is left out while a newer incoming item is
\* kept.
C8_Witness ==
  /\ mstage = "merged"
  /\ \E e \in Range(argExisting), n \in Range(argNew) :
       /\ e \notin Range(resMerged)
       /\ n \in Range(resMerged)
       /\ n \notin Range(argExisting)
       /\ n.publishedAt > e.publishedAt

\* C9 -- Stable ties: for each publishedAt value, the output's items of that
\* value are the first ones of the concatenation's items of that value, in
\* the concatenation's order.
C9_StableTies ==
  mstage = "merged" =>
    \A t \in Times :
      IsPrefix(AtTime(resMerged, t), AtTime(Concatenation(argExisting, argNew), t))

\* C9 witness: a tie at the cap boundary, the existing item is kept and the
\* new item of the same publishedAt is left out.
C9_Witness ==
  /\ mstage = "merged"
  /\ DistinctUrls(argExisting \o argNew)
  /\ \E e \in Range(argExisting), n \in Range(argNew) :
       /\ e.publishedAt = n.publishedAt
       /\ e = resMerged[Len(resMerged)]
       /\ n \notin Range(resMerged)

\* Every item the worker holds: in the batches and lists of the runs and in
\* the store.
AllItems ==
  UNION {Range(news[r]) \cup Range(existingNews[r]) \cup Range(mergedNews[r]) : r \in Slots}
    \cup Range(Latest)
    \cup {kv[NewsKey(id)].value : id \in {i \in Ids : kv[NewsKey(i)].present}}

\* C10 -- Stable id: two items with the same URL have the same id, whichever
\* adapter built them, in whichever run, whatever their title and date.
C10_StableId == \A a, b \in AllItems : a.url = b.url => a.id = b.id

\* C10 witness: the batch of one run holds the same URL from the scraper
\* conversion and from the RSS parser, with different titles and dates,
\* while the store holds that URL from an earlier run.
C10_Witness ==
  \E r \in Slots :
    /\ Len(news[r]) = 2
    /\ news[r][1].url = news[r][2].url
    /\ news[r][1].title # news[r][2].title
    /\ news[r][1].publishedAt # news[r][2].publishedAt
    /\ news[r][1].url \in Urls(Latest)

(***************************************************************************)
(* The store calls of one run.                                             *)
(***************************************************************************)
\* The method and key of each logged call, in order.
OpKinds(log) == [i \in 1..Len(log) |-> [op |-> log[i].op, key |-> log[i].key]]

\* The calls a complete storeNewsData makes for the merged list: the read,
\* the collection write, one write per item, the metadata write.
ExpectedOps(merged) ==
  <<[op |-> "get", key |-> "latest-news"], [op |-> "put", key |-> "latest-news"]>>
    \o [i \in 1..Len(merged) |-> [op |-> "put", key |-> NewsKey(merged[i].id)]]
    \o <<[op |-> "put", key |-> "fetch-metadata"]>>

\* Number of completed writes of the collection in a log.
CollectionWrites(log) ==
  Cardinality({i \in 1..Len(log) : log[i].op = "put" /\ log[i].key = "latest-news" /\ log[i].ok})

LastOp(log) == log[Len(log)]
AllIdle == \A r \in Slots : pc[r] \in {"idle", "done"}

\* C11 -- Write order: the store calls of one run are, in this order, the
\* read of 'latest-news', the write of 'latest-news', one write per item of
\* the merged list and the write of 'fetch-metadata'; a write that throws is
\* the run's last call; the collection is written once, before every
\* per-item and metadata write, and a run that got through has made all of
\* the calls.
C11_WriteOrder ==
  \A r \in Slots :
    /\ IsPrefix(OpKinds(ops[r]), ExpectedOps(mergedNews[r]))
    /\ \A i \in 1..(Len(ops[r]) - 1) : ops[r][i].ok \/ ops[r][i].op = "get"
    /\ CollectionWrites(ops[r]) <= 1
    /\ pc[r] \in {"idle", "fetchAllNews", "getExisting"} => ops[r] = <<>>
    /\ pc[r] = "putLatest" => Len(ops[r]) = 1
    /\ pc[r] = "putItems" => (Len(ops[r]) = 1 + itemIdx[r] /\ CollectionWrites(ops[r]) = 1)
    /\ pc[r] = "putMetadata" => (Len(ops[r]) = 2 + Len(mergedNews[r]) /\ CollectionWrites(ops[r]) = 1)
    /\ (pc[r] = "done" /\ ops[r] # <<>> /\ LastOp(ops[r]).ok)
         => (OpKinds(ops[r]) = ExpectedOps(mergedNews[r]) /\ CollectionWrites(ops[r]) = 1)

\* C11 witness: a run has made all its calls for a merged list of two or
\* more items.
C11_Witness ==
  \E r \in Slots :
    /\ pc[r] = "done"
    /\ Len(mergedNews[r]) >= 2
    /\ OpKinds(ops[r]) = ExpectedOps(mergedNews[r])
    /\ LastOp(ops[r]).ok

\* C12 -- Later-step failure is not fatal: a step in which a per-item write
\* or the metadata write of a run throws leaves 'latest-news' as it is
\* stored, ends the run without an error, and the manual trigger answers
\* success.
C12_LaterStepFailureNotFatal ==
  [][\A r \in Slots :
       (/\ pc[r] \in {"putItems", "putMetadata"}
        /\ Len(ops'[r]) = Len(ops[r]) + 1
        /\ ~LastOp(ops'[r]).ok)
         => /\ kv'["latest-news"] = kv["latest-news"]
            /\ pc'[r] = "done"
            /\ (r = "manual" => (response'[r].sent /\ response'[r].success))]_vars

\* C12 witness: the manual run wrote the collection, a later write threw,
\* the collection is stored as the run wrote it and the answer is success.
C12_Witness ==
  /\ pc["manual"] = "done"
  /\ Len(ops["manual"]) >= 3
  /\ CollectionWrites(ops["manual"]) = 1
  /\ ~LastOp(ops["manual"]).ok
  /\ Latest = mergedNews["manual"]
  /\ response["manual"].sent
  /\ response["manual"].success

\* Whether the store was unavailable for the whole of the run of r: the
\* binding is missing, or every call the run made threw.
StoreUnavailable(r) ==
  \/ ~kvBound
  \/ (ops[r] # <<>> /\ \A i \in 1..Len(ops[r]) : ~ops[r][i].ok)

\* C13 -- Store unavailable is reported as failure (the claim as stated): a
\* manual run with a non-empty batch for which the store was unavailable
\* answers with the error payload.
C13_StoreUnavailableIsFailure ==
  (pc["manual"] = "done" /\ Len(news["manual"]) > 0 /\ StoreUnavailable("manual"))
    => (response["manual"].sent /\ ~response["manual"].success)

\* C18 -- Metadata matches the collection (the claim as stated): when no run
\* is in progress and both records are present, totalItems is the length
\* of the collection and sources is the set of its items' sources.
C18_MetadataMatchesCollection ==
  (AllIdle /\ kv["latest-news"].present /\ kv["fetch-metadata"].present)
    => /\ kv["fetch-metadata"].value.totalItems = Len(Latest)
       /\ kv["fetch-metadata"].value.sources = {Latest[i].source : i \in 1..Len(Latest)}

\* Whether the request of source i failed in the network: it threw, or
\* the response had an error status.
NetworkFailed(i) == outcome[i] \in {"throws", "non2xx"}

\* C14 -- Partial source failure is success: whichever sources fail, the
\* loop visits all seven, the run ends normally, the manual trigger answers
\* success, and every item of a source whose request delivered an entry is
\* in the batch and in the persisted collection (unless the collection is
\* full of items at least as recent).
C14_PartialFailureIsSuccess ==
  \A r \in Slots :
    /\ pc[r] \in {"getExisting", "putLatest", "putItems", "putMetadata", "done"}
         => \A i \in 1..NumSources : outcome[i] # "pending"
    /\ pc[r] = "done" =>
         /\ r = "manual" => (response[r].sent /\ response[r].success)
         /\ \A i \in 1..NumSources :
              outcome[i] = "ok" =>
                \A item \in Range(fetchNewsFromSource(Sources[i], "ok", now)) :
                  /\ item \in Range(news[r])
                  /\ Retained(item, Latest)

\* C14 witness: a run is over in which some sources failed in each of the
\* ways, another delivered, and the manual trigger answered success.
C14_Witness ==
  /\ pc["manual"] = "done"
  /\ response["manual"].sent
  /\ response["manual"].success
  /\ \E i, j, k, l \in 1..NumSources :
       /\ outcome[i] = "throws"
       /\ outcome[j] = "non2xx"
       /\ outcome[k] = "empty"
       /\ outcome[l] = "ok"
       /\ Sources[l].type = "rss"
       /\ \A item \in Range(fetchNewsFromSource(Sources[l], "ok", now)) : item \in Range(Latest)

\* C15 -- A failed source contributes nothing (the claim as stated): a source
\* whose request threw or met an error status adds no item to the batch.
C15_FailedSourceContributesNothing ==
  \A i \in 1..NumSources : NetworkFailed(i) => contributed[i] = 0

\* C15, the part that holds: the five sources other than Governo dos Acores
\* and Diario da Republica add nothing when their request fails, and a
\* failure never stops the loop.
C15_FailedSourceContributesNothingExceptFallbacks ==
  /\ \A i \in 1..NumSources :
       (NetworkFailed(i) /\ Sources[i].label \notin {"Governo dos Acores", "Diario da Republica"})
         => contributed[i] = 0
  /\ \A r \in Slots :
       pc[r] \in {"getExisting", "putLatest", "putItems", "putMetadata", "done"}
         => \A i \in 1..NumSources : outcome[i] # "pending"

\* A step of the /news-loader handler changes no record of the store, starts
\* no acquisition run and contacts no source.
LoaderFrame ==
  /\ kv' = kv
  /\ pc' = pc
  /\ news' = news
  /\ runsStarted' = runsStarted
  /\ <<srcIdx, outcome, contributed>>' = <<srcIdx, outcome, contributed>>

\* C16 -- Read-only loader (the claim as stated): every step of the handler
\* leaves store, runs and sources alone, and in every store state the
\* answer is success with the stored collection, [] when none is stored.
C16_LoaderReadOnlyAnswersStored ==
  [][(lpc' # lpc) =>
       /\ LoaderFrame
       /\ (lpc = "getNews" /\ lpc' = "getMetadata") => lnews' = Latest
       /\ lpc' = "done" =>
            /\ lresponse'.sent /\ lresponse'.success
            /\ lresponse'.count = Len(lresponse'.news)
            /\ lresponse'.news = IF lpc = "getMetadata" THEN lnews ELSE Latest]_vars

\* C16 as amended -- every step of the handler leaves store, runs and
\* sources alone; the answer is success with the collection as read from
\* the store, [] when none is stored, and [] when the read throws
\* although a collection is stored.
C16_LoaderReadOnly ==
  [][(lpc' # lpc) =>
       /\ LoaderFrame
       /\ (lpc = "getNews" /\ lpc' = "getMetadata") => lnews' = Latest
       /\ lpc' = "done" =>
            /\ lresponse'.sent /\ lresponse'.success
            /\ lresponse'.count = Len(lresponse'.news)
            /\ lresponse'.news = IF lpc = "getMetadata" THEN lnews ELSE <<>>]_vars

\* C16 witness: after a complete run the handler has answered with the
\* stored collection and the run's lastCronRun, the store being as the run
\* left it.
C16_Witness ==
  /\ lpc = "done"
  /\ pc["scheduled"] = "done"
  /\ lresponse.success
  /\ Len(lresponse.news) >= 1
  /\ lresponse.news = Latest
  /\ lresponse.lastCronRun # NoCronRun
  /\ kv["fetch-metadata"].present
  /\ kv["fetch-metadata"].value.totalItems = Len(Latest)

\* C17 -- Reader concurrent with a run: the list a /news-loader read gets
\* while a run is in progress is the run's whole merged list once the run
\* has written the collection, and the list stored before the run's write
\* otherwise; the answer carries that list unchanged.
C17_ReaderSeesCommittedList ==
  [][/\ (lpc = "getNews" /\ lpc' = "getMetadata") =>
          IF pc["scheduled"] \in {"putItems", "putMetadata"} /\ kv["latest-news"].present
          THEN lnews' = mergedNews["scheduled"]
          ELSE /\ lnews' = Latest
               /\ pc["scheduled"] = "putLatest" =>
                    lnews' \in {existingNews["scheduled"], unreadNews["scheduled"], <<>>}
     /\ (lpc = "getMetadata" /\ lpc' = "done") => lresponse'.news = lnews]_vars

\* C17 witness: the handler read the collection between the run's
\* collection write and its later writes, and holds the run's merged list
\* of two items, which is not the list the run found.
C17_Witness ==
  /\ lpc = "getMetadata"
  /\ pc["scheduled"] = "putItems"
  /\ itemIdx["scheduled"] = 1
  /\ Len(mergedNews["scheduled"]) >= 2
  /\ Len(existingNews["scheduled"]) >= 1
  /\ unreadNews["scheduled"] = <<>>
  /\ lnews = mergedNews["scheduled"]
  /\ lnews # existingNews["scheduled"]

(***************************************************************************)
(* The browser client.                                                     *)
(***************************************************************************)
\* The news items of the bundled snapshot.
SnapshotNews == getNewsFromFixture(Fixture)

\* The live request failed in one of the four ways of the claim.
LiveFailed == liveOutcome \in {"timeout", "transport", "non2xx", "successFalse"}

\* The dashboard shows the items of the list: same length and order, every
\* field of each item kept.
Shows(shown, items) ==
  /\ Len(shown) = Len(items)
  /\ \A i \in 1..Len(items) :
       \A f \in DOMAIN items[i] : f # "type" => shown[i][f] = items[i][f]

\* C19 -- Initial-load fallback: once the live request of loadStoredNews has
\* timed out, failed in transport, returned a non-2xx status or a body with
\* success false, and the snapshot can be loaded, the initial load ends
\* with loadStoredNews resolved with the snapshot's news items and the
\* dashboard showing them, loading false.
C19_FallbackToSnapshot ==
  (cpc = "fallbackLoad" /\ centry = "fetchAllData" /\ LiveFailed /\ fixtureAvailable)
    ~> (/\ cpc = "done"
        /\ result = Items(SnapshotNews)
        /\ SnapshotNews # <<>>
        /\ Shows(newsItems, SnapshotNews)
        /\ loading = FALSE)

\* C19 witness: the initial load has ended after a live request that timed
\* out, and the dashboard shows the two news items of the snapshot.
C19_Witness ==
  /\ cpc = "done"
  /\ centry = "fetchAllData"
  /\ liveOutcome = "timeout"
  /\ fixtureAvailable
  /\ workerRequests = 1
  /\ result = Items(SnapshotNews)
  /\ Len(newsItems) = 2
  /\ newsItems[1].id = "fixture-1"
  /\ newsItems[1].cleanTitle = "Azores news"
  /\ loading = FALSE

\* C20 -- Offline bypass (the claim as stated): with the offline switch set
\* loadStoredNews and fetchLatestNews issue no request to the worker URL
\* and resolve with the news items of the snapshot.
C20_OfflineResolvesWithSnapshot ==
  offline =>
    /\ workerRequests = 0
    /\ liveOutcome = "none"
    /\ cpc \notin {"liveRequest", "fallbackLoad"}
    /\ cpc \in {"resolved", "done"} => result = Items(SnapshotNews)

\* C20 as amended -- with the offline switch set the two functions issue no
\* request to the worker URL; they resolve with the news items of the
\* snapshot when it can be loaded, and with [] when it cannot.
C20_OfflineBypass ==
  offline =>
    /\ workerRequests = 0
    /\ liveOutcome = "none"
    /\ cpc \notin {"liveRequest", "fallbackLoad"}
    /\ cpc \in {"resolved", "done"} =>
         result = Items(IF fixtureAvailable THEN SnapshotNews ELSE <<>>)

\* C20 witness: fetchLatestNews has returned the snapshot's news items in
\* offline mode without a request to the worker.
C20_Witness ==
  /\ offline
  /\ centry = "fetchLatestNews"
  /\ cpc = "done"
  /\ workerRequests = 0
  /\ result = Items(SnapshotNews)
  /\ Len(result.items) = 2

(***************************************************************************)
(* The manual refresh.                                                     *)
(***************************************************************************)
\* A live request of the refresh failed or timed out.
RefreshLiveFailed ==
  \/ scrapeResult.settled /\ ~scrapeResult.success
  \/ rpc = "done" /\ liveOutcome \notin {"none", "ok"}

\* C21 -- Manual refresh never falls back silently: whenever a refresh has
\* ended after a live request of it (the trigger or the reload) failed or
\* timed out, an error was shown and the displayed news items are not the
\* items of the bundled snapshot.
C21_RefreshNeverFallsBackSilently ==
  (rpc = "done" /\ RefreshLiveFailed) =>
     /\ alertShown
     /\ ~Shows(newsItems, SnapshotNews)

\* The part of C21 that holds: a failed trigger is always shown as an error
\* and leaves the displayed items alone.
C21_FailedTriggerIsShown ==
  (rpc = "done" /\ scrapeResult.settled /\ ~scrapeResult.success) =>
     /\ alertShown
     /\ ~Shows(newsItems, SnapshotNews)
     /\ newsItems = cleanNewsItems(result.news)

\* C22 -- Refresh is bounded by the one timeout: while a refresh is in
\* progress the seconds counter shown to the user never exceeds
\* WORKER_TIMEOUT_SECONDS.
C22_CounterWithinTimeout ==
  refreshing => timeoutCounter <= WORKER_TIMEOUT_SECONDS

\* What bounds the counter: the two requests of a refresh each have their
\* own timeout.
C22_CounterWithinTwoTimeouts ==
  /\ timeoutCounter <= 2 * WORKER_TIMEOUT_SECONDS
  /\ rpc = "trigger" => timeoutCounter <= WORKER_TIMEOUT_SECONDS

(***************************************************************************)
(* The parsers of the adapters.                                            *)
(***************************************************************************)
\* An entry with title and link whose date is absent or parsable.
WellFormed(e) == HasTitleAndLink(e) /\ ~DateThrows(e)

\* The returned list holds an item for the entry.
Emitted(e) ==
  \E j \in 1..Len(callRet) : callRet[j].url = e.link /\ callRet[j].title = e.title

\* C23 -- One bad entry does not fail the adapter: the parser returns an
\* item for every well-formed entry of its input, whatever the other
\* entries are; for parseRSSFeed, parseNewsFromHTML and
\* scrapeUniversidadeAzores.
C23_BadEntryDoesNotFailAdapter ==
  callStage = "returned" =>
    \A i \in 1..Len(callArg) : WellFormed(callArg[i]) => Emitted(callArg[i])

\* The part of C23 that holds: the two scrapers keep every well-formed
\* entry, and parseRSSFeed does when the bad entries lack title or link.
C23_HoldsForScrapers ==
  (callStage = "returned" /\
     (callFn # "parseRSSFeed" \/ \A i \in 1..Len(callArg) : ~DateThrows(callArg[i]))) =>
    \A i \in 1..Len(callArg) : WellFormed(callArg[i]) => Emitted(callArg[i])

\* C24 -- publishedAt default: an entry with title and link but without a
\* publish date, or with one that cannot be parsed, is returned with
\* publishedAt equal to the acquisition time, by every parser.
C24_PublishedAtDefaultsToAcquisition ==
  callStage = "returned" =>
    \A i \in 1..Len(callArg) :
      (HasTitleAndLink(callArg[i]) /\ callArg[i].date \in {NoMatch, InvalidDateText}) =>
        \E j \in 1..Len(callRet) :
          /\ callRet[j].url = callArg[i].link
          /\ callRet[j].publishedAt = AcquiredAt

\* The part of C24 that holds: an entry without a publish date, in a feed
\* or page with no unparsable date, gets the acquisition time.
C24_MissingDateDefaults ==
  (callStage = "returned" /\ \A i \in 1..Len(callArg) : ~DateThrows(callArg[i])) =>
    \A i \in 1..Len(callArg) :
      (HasTitleAndLink(callArg[i]) /\ callArg[i].date = NoMatch) =>
        \E j \in 1..Len(callRet) :
          /\ callRet[j].url = callArg[i].link
          /\ callRet[j].publishedAt = AcquiredAt

\* C25 -- Absolute URLs: every item the parsers hand to the pipeline has an
\* absolute URL (a scheme and a host).
C25_EmittedUrlsAbsolute ==
  callStage = "returned" =>
    \A j \in 1..Len(callRet) : callRet[j].url.scheme = "https://" /\ callRet[j].url.host # ""

(***************************************************************************)
(* The schedule of the source requests.                                    *)
(***************************************************************************)
\* The delay the loops put between the settling of source i - 1 and the
\* request of source i.
DelayBefore(i) ==
  IF Sources[i - 1].category # Sources[i].category
  THEN FETCH_DELAY_MS + CATEGORY_DELAY_MS
  ELSE FETCH_DELAY_MS

Vocabulary == {TagRules[i].tag : i \in 1..Len(TagRules)}

\* The test case of testTagExtraction: title 'New Permaculture Project in
\* São Miguel', summary 'Sustainable agriculture initiative in the Azores'.
ExampleInput ==
  [title |-> {"New", "Permaculture", "Project in", "São Miguel"},
   summary |-> {"Sustainable", "agriculture initiative in the", "Azores"}]
ExampleExpectedTags == {"permaculture", "sao-miguel", "azores", "sustainability"}

\* The returned tags are distinct, of the vocabulary, and hold every tag one
\* of whose configured terms occurs in title or summary in any letter case.
TagsOfConfiguredTerms ==
  /\ \A i, j \in 1..Len(callRet) : i # j => callRet[i] # callRet[j]
  /\ Range(callRet) \subseteq Vocabulary
  /\ \A k \in 1..Len(TagRules) :
       (\E term \in TagRules[k].terms :
          Includes({ToLowerCase(phrase) : phrase \in callArg.title \cup callArg.summary}, term))
         <=> TagRules[k].tag \in Range(callRet)

\* C27 -- Tagging: extractTags returns each tag at most once, only tags of
\* the 12-tag vocabulary, every tag whose topic is mentioned in any letter
\* case, and for the test case of testTagExtraction the tags permaculture,
\* sao-miguel, azores and sustainability.
C27_Tagging ==
  callStage = "returned" =>
    /\ TagsOfConfiguredTerms
    /\ callArg = ExampleInput => Range(callRet) = ExampleExpectedTags

\* The part of C27 that holds: distinct tags of the vocabulary, one for
\* every configured term that occurs literally.
C27_ConfiguredTermsTagged ==
  callStage = "returned" => (Cardinality(Vocabulary) = Len(TagRules) /\ TagsOfConfiguredTerms)

\* C29 -- Ids are unique: generateId gives different ids to different URLs,
\* also to two URLs that share their first nine characters.
C29_IdsUnique ==
  (callFn = "generateId" /\ callStage = "returned") =>
    (callArg[1] # callArg[2] => callRet[1] # callRet[2])

\* What generateId does give: the id is the same for the same URL, and two
\* URLs get different ids exactly when their first nine characters differ.
C29_IdOfFirstNine ==
  (callFn = "generateId" /\ callStage = "returned") =>
    (callRet[1] = callRet[2] <=> FirstNine(callArg[1]) = FirstNine(callArg[2]))

\* The 'news-<id>' keys.
ItemKeys == {NewsKey(id) : id \in Ids}

\* The keys the cron cycle in progress (or the last one) has put so far.
CycleWrote ==
  {ops["scheduled"][i].key : i \in {j \in DOMAIN ops["scheduled"] :
      ops["scheduled"][j].op = "put" /\ ops["scheduled"][j].ok}}

\* C28: every 'news-<id>' record is put with a longer expiration (30 days)
\* than the 'latest-news' record (7 days), and while the collection a cycle
\* wrote is still in the store, so is every per-item record that cycle wrote.
C28_TtlOrdering ==
  /\ \A k \in ItemKeys : kv[k].present =>
        /\ kv[k].expirationTtl = 30 * SecondsPerDay
        /\ kv[k].expirationTtl > CollectionTtl
  /\ kv["latest-news"].present => kv["latest-news"].expirationTtl = 7 * SecondsPerDay
  /\ ("latest-news" \in CycleWrote /\ kv["latest-news"].present) =>
        \A k \in CycleWrote \cap ItemKeys :
           /\ kv[k].present
           /\ ~ExpiredOn(kv[k], clock)

\* C28 witness: days after a cycle wrote the collection and two per-item
\* records, the collection is about to expire and all three are in the store.
C28_Witness ==
  /\ pc["scheduled"] = "done"
  /\ "latest-news" \in CycleWrote
  /\ kv["latest-news"].present
  /\ clock = kv["latest-news"].writtenAt + 6
  /\ Cardinality(CycleWrote \cap ItemKeys) >= 2

\* C28, the other side: the per-item records of a cycle outlive its collection.
C28_RecordsOutliveCollection ==
  /\ pc["scheduled"] = "done"
  /\ "latest-news" \in CycleWrote
  /\ ~kv["latest-news"].present
  /\ \A k \in CycleWrote \cap ItemKeys : kv[k].present
  /\ CycleWrote \cap ItemKeys # {}

\* C30 -- Per-item records are complete: after a cycle all of whose store
\* writes succeeded, the record under 'news-<i.id>' equals i for every item i
\* of the persisted collection.
C30_ItemRecordsComplete ==
  (/\ pc["scheduled"] = "done"
   /\ {"latest-news", "fetch-metadata"} \subseteq CycleWrote
   /\ \A i \in DOMAIN ops["scheduled"] : ops["scheduled"][i].ok
   /\ kv["latest-news"].present) =>
     \A i \in 1..Len(Latest) :
        /\ kv[NewsKey(Latest[i].id)].present
        /\ kv[NewsKey(Latest[i].id)].value = Latest[i]

\* What the loop does leave: a record under the key of every item of the
\* collection, holding the last item of the collection that has that id.
C30_RecordHoldsLastOfId ==
  (/\ pc["scheduled"] = "done"
   /\ {"latest-news", "fetch-metadata"} \subseteq CycleWrote
   /\ kv["latest-news"].present) =>
     \A i \in 1..Len(Latest) :
        /\ kv[NewsKey(Latest[i].id)].present
        /\ \E j \in i..Len(Latest) :
              /\ Latest[j].id = Latest[i].id
              /\ \A m \in (j + 1)..Len(Latest) : Latest[m].id # Latest[i].id
              /\ kv[NewsKey(Latest[i].id)].value = Latest[j]

\* The manual trigger has answered success:true and no other run has started
\* since: now is still the time of that run.
ManualAnsweredSuccess ==
  /\ pc["manual"] = "done"
  /\ response["manual"].sent
  /\ response["manual"].success
  /\ pc["scheduled"] = "idle"

\* The run of a handler has put 'fetch-metadata'.
WroteMetadata(r) ==
  \E i \in DOMAIN ops[r] :
     ops[r][i] = KvOp("put", "fetch-metadata", TRUE)

\* C31 -- The returned run time becomes the stored run time: once POST
\* /news-scraper has answered success:true, 'fetch-metadata' has been
\* rewritten by that run and carries its run time, also for an empty batch.
C31_ReturnedRunTimeStored ==
  ManualAnsweredSuccess =>
    /\ kv["fetch-metadata"].present
    /\ kv["fetch-metadata"].value.lastCronRun = now

\* What does hold: a run that got as far as the put of 'fetch-metadata'
\* leaves its own run time there.
C31_WrittenMetadataCarriesRunTime ==
  (ManualAnsweredSuccess /\ WroteMetadata("manual")) =>
    /\ kv["fetch-metadata"].present
    /\ kv["fetch-metadata"].value.lastCronRun = now

\* C32 -- Empty batch changes nothing: when fetchAllNews yields no item,
\* storeNewsData returns without any store read or write; the run is over
\* and 'latest-news', the 'news-<id>' records and 'fetch-metadata' are as
\* they were, expirations included.
C32_EmptyBatchChangesNothing ==
  [][\A r \in Slots :
       (pc[r] = "fetchAllNews" /\ pc'[r] # "fetchAllNews" /\ news'[r] = <<>>) =>
          /\ pc'[r] = "done"
          /\ ops'[r] = <<>>
          /\ kv' = kv]_vars

\* C32 witness: a run with an empty batch has ended over a store that holds
\* a collection, per-item records and the metadata of an earlier run.
C32_Witness ==
  \E r \in Slots :
     /\ pc[r] = "done"
     /\ news[r] = <<>>
     /\ ops[r] = <<>>
     /\ kvBound
     /\ Len(Latest) > 0
     /\ kv["fetch-metadata"].present
     /\ kv["fetch-metadata"].value.lastCronRun < now

\* The run of handler r is the only one so far to have ended, and it ended
\* with the put of 'fetch-metadata'.
RunWroteMetadataLast(r) ==
  /\ pc[r] = "done"
  /\ WroteMetadata(r)
  /\ \A q \in Slots \ {r} : pc[q] = "idle"

\* The items of the fetched batch that were not in the collection before the
\* run and are in it after the run.
AddedByRun(r) ==
  {i \in 1..Len(news[r]) :
     /\ news[r][i].url \notin Urls(existingNews[r])
     /\ news[r][i] \in Range(Latest)}

\* C33 -- newItemsAdded counts the new items: the value written to
\* 'fetch-metadata' is the number of items of the batch that were not in the
\* collection before the run and are in it after, and is never negative.
C33_NewItemsAddedCountsNew ==
  \A r \in Slots :
     RunWroteMetadataLast(r) =>
        /\ kv["fetch-metadata"].value.newItemsAdded >= 0
        /\ kv["fetch-metadata"].value.newItemsAdded = Cardinality(AddedByRun(r))

\* What is written: the growth of the collection, which is never negative.
C33_NewItemsAddedIsGrowth ==
  \A r \in Slots :
     RunWroteMetadataLast(r) =>
        /\ kv["fetch-metadata"].value.newItemsAdded >= 0
        /\ kv["fetch-metadata"].value.newItemsAdded = Len(Latest) - Len(existingNews[r])

\* loadStoredNews is waiting on the live endpoint.
WaitingOnLive == cpc \in {"awaitHeaders", "awaitBody"}

\* C34 -- The timeout bounds the whole live attempt: loadStoredNews never
\* waits on the live endpoint past the timeout, headers and body included.
C34_TimeoutBoundsLiveAttempt ==
  WaitingOnLive => reqElapsed <= WORKER_TIMEOUT_SECONDS

\* What the timer does bound: the wait for the response headers.
C34_TimeoutBoundsHeaders ==
  /\ cpc = "awaitHeaders" => reqElapsed <= WORKER_TIMEOUT_SECONDS
  /\ liveOutcome = "timeout" => reqElapsed = WORKER_TIMEOUT_SECONDS

\* The requests for the snapshot that are in flight.
FixtureInFlight == {id \in 1..MaxFixtureRequests : fxReq[id] = "inFlight"}

\* C35 -- Snapshot loading is single-flight: without clearFixtureCache, at
\* most one request for the snapshot is in flight and every waiting caller
\* waits on it; the callers of one request receive the same data; after a
\* successful load no further request is issued; after a failed load the
\* module is back to issuing a request on the next call.
C35_SingleFlight ==
  /\ Cardinality(FixtureInFlight) <= 1
  /\ \A c \in 1..MaxCallers :
       fxCall[c].pc = "waiting" => FixtureInFlight = {fxCall[c].on} /\ fixturePromise = fxCall[c].on
  /\ \A c, d \in 1..MaxCallers :
       (fxCall[c].pc = "returned" /\ fxCall[d].pc = "returned") => fxCall[c].got = fxCall[d].got
  /\ \A c \in 1..MaxCallers :
       fxCall[c].pc = "returned" => fixtureCache /\ fxCall[c].got = fxData
  /\ \A id \in 1..MaxFixtureRequests :
       fxReq[id] = "ok" =>
          /\ fixtureCache /\ fxData = id
          /\ \A j \in (id + 1)..MaxFixtureRequests : fxReq[j] = "unissued"
  /\ (~fixtureCache /\ FixtureInFlight = {}) => fixturePromise = 0
  /\ \A c \in 1..MaxCallers :
       fxCall[c].pc = "threw" => fxReq[fxCall[c].on] = "failed"

\* C35 witness: after a failed load, two callers wait on the one new request
\* while a third still holds the error of the first.
C35_Witness ==
  /\ fxReq[1] = "failed"
  /\ fxReq[2] = "inFlight"
  /\ Cardinality({c \in 1..MaxCallers : fxCall[c].pc = "waiting"}) = 2
  /\ \E c \in 1..MaxCallers : fxCall[c].pc = "threw"

\* C35, second case reached: the load succeeded, every caller has returned
\* with its data, one of them from the cache, and no request was made since.
C35_AllServedByOneLoad ==
  /\ fxReq[1] = "ok"
  /\ \A c \in 1..MaxCallers : fxCall[c].pc = "returned"
  /\ \E c \in 1..MaxCallers : fxCall[c].on = 0

\* C36 -- Invalidation is effective: once clearFixtureCache has returned,
\* and until loadFixtureData is called again, the cache is empty and no
\* request is registered, so that call issues a new request.
C36_InvalidationEffective ==
  fxCleared => (~fixtureCache /\ fixturePromise = 0)

\* What holds for the clear itself: until the next loadFixtureData no
\* request is registered, and data in the cache is that of a completed
\* request.
C36_ClearForgetsRequest ==
  fxCleared => (fixturePromise = 0 /\ (fixtureCache => fxReq[fxData] = "ok"))

\* fetchAllData has finished the initial load.
InitialLoadDone == centry = "fetchAllData" /\ cpc = "done"

\* The displayed news items are the items the live endpoint returned.
ShowsLiveItems ==
  /\ result.kind = "response"
  /\ result.news # <<>>
  /\ newsItems = cleanNewsItems(result.news)

\* C37 -- Live data is shown with the live timestamp: after the initial
\* load a last-run timestamp is shown only with the items of the live
\* endpoint, never with the items of the bundled snapshot.
C37_TimestampOnlyWithLiveItems ==
  (InitialLoadDone /\ lastFetchTime # NoCronRun) => ShowsLiveItems

\* What holds: no timestamp after a fallback or in offline mode, where
\* loadStoredNews returns an array.
C37_NoTimestampAfterFallback ==
  (InitialLoadDone /\ result.kind # "response") => lastFetchTime = NoCronRun

\* C38 -- The initial load always ends: with every request settling or
\* timing out, fetchAllData sets loading to false whatever the live request
\* and the snapshot read come to.
C38_InitialLoadEnds ==
  (centry = "fetchAllData" /\ cpc = "idle" /\ loading)
    ~> (cpc = "done" /\ loading = FALSE)

\* C38 witness: the load has ended, loading false, after the live request
\* failed and the snapshot could not be read either.
C38_Witness ==
  /\ InitialLoadDone
  /\ loading = FALSE
  /\ liveOutcome = "transport"
  /\ result = Rejected
  /\ newsItems = <<>>

\* The handler of GET /news has run, or is running, the acquisition
\* pipeline.
RanPipeline == pc["manual"] # "idle"

\* The store calls of the handler that wrote.
HandlerPuts == {i \in DOMAIN ops["manual"] : ops["manual"][i].op = "put"}

\* C39 -- Earlier worker, GET /news: the handler runs fetchAllNews and
\* storeNewsData exactly when no stored collection could be read or the one
\* read is empty; with a non-empty collection read it issues no upstream
\* request and writes nothing.
C39_NewsFetchesOnlyWhenEmpty ==
  /\ [](/\ lpc \in {"getNews", "getMetadata", "decide"} => (~RanPipeline /\ HandlerPuts = {})
        /\ lpc \in {"pipeline", "done"} => (RanPipeline <=> lnews = <<>>)
        /\ ~RanPipeline => (HandlerPuts = {} /\ news["manual"] = <<>>)
        /\ ~kvBound => lnews = <<>>)
  /\ [][(lpc = "getNews" /\ lpc' # "getNews") =>
          (lnews' # <<>> <=> (LastOp(ops'["manual"]).ok /\ Latest # <<>>))]_vars

\* C39 witness: the handler has answered with the stored two items, having
\* issued no upstream request and no write.
C39_Witness ==
  /\ lpc = "done"
  /\ ~RanPipeline
  /\ Len(lnews) = 2
  /\ lresponse.sent /\ lresponse.news = lnews
  /\ HandlerPuts = {}

\* C39, the other side reached: the read of a stored collection threw, and
\* the handler fetched and stored a fresh batch.
C39_FreshAfterFailedRead ==
  /\ lpc = "done"
  /\ ops["manual"] # <<>>
  /\ ~ops["manual"][1].ok
  /\ Len(Latest) > 0
  /\ HandlerPuts # {}
  /\ lresponse.sent /\ lresponse.news = news["manual"]

====
